---- MODULE Spec2Model ----
\* A model of server.js: the POST /run handler (validate, launch, navigate with
\* retry, resolve the execution context, wait for the element, scroll, click,
\* post-click wait, respond, close the browser) and the GET /info handler
\* (validate, launch, navigate once, read the title, respond, close the
\* browser), with the browser and the page as a nondeterministic environment.
\*
\* A JavaScript string is a sequence of one-character strings; `undefined` is
\* the one-element sequence Undefined and `null` the one-element sequence Null,
\* which no string equals because their only element has more than one character.
EXTENDS Integers, Sequences, FiniteSets, TLC

\* ---------------------------------------------------------------- bounds

\* The longest buttonId whose escaping is enumerated.
MaxIdLen == 2

\* ------------------------------------------------------ program constants

\* pRetry(..., { retries: 2 })
RETRIES == 2

CLICK_TIMEOUT_MS_DEFAULT == 20000

DEFAULT_WAIT_MS == 60000

\* ------------------------------------------------------------- JS values

Undefined == <<"undefined">>

Null == <<"null">>

\* JavaScript truthiness of a value that is a string, undefined or null.
Truthy(v) == v # Undefined /\ v # Null /\ v # <<>>

\* The request's numeric fields: absent, or a number.
NumUndefined == [t |-> "undefined", n |-> 0]

Num(k) == [t |-> "number", n |-> k]

\* Number.isFinite(Number(v)): Number(undefined) is NaN.
IsFiniteNumber(v) == v.t = "number"

\* The test of the extra wait with 0 let through.
NumberAtLeastZero(v) == v.t = "number" /\ v.n >= 0

\* Number(v) > 0: NaN > 0 is false.
NumberGtZero(v) == v.t = "number" /\ v.n > 0

\* String.prototype.includes: t occurs in s as a contiguous run of characters.
Includes(s, t) ==
    \E i \in 0..(Len(s) - Len(t)) : SubSeq(s, i + 1, i + Len(t)) = t

\* ------------------------------------------------------------ escapeCssId

\* The grave accent character, which a string literal here cannot hold.
Backtick == "grave"

\* The character class of escapeCssId's regular expression.
ReservedChars ==
    {" ", "!", "\"", "#", "$", "%", "&", "'", "(", ")", "*", "+", ",", ".",
     "/", ":", ";", "<", "=", ">", "?", "@", "[", "\\", "]", "^", Backtick, "{",
     "|", "}", "~"}

\* String(id).replace(/([...])/g, "\\$1"): every reserved character gets one
\* backslash in front, everything else is copied.
RECURSIVE escapeCssId(_)
escapeCssId(id) ==
    IF id = <<>> THEN <<>>
    ELSE (IF Head(id) \in ReservedChars THEN <<"\\", Head(id)>> ELSE <<Head(id)>>)
         \o escapeCssId(Tail(id))

\* The selector with the precedence reversed: buttonId wins over selector.
BuildCssIdFirst(selector, buttonId) ==
    IF Truthy(buttonId) THEN <<"#">> \o escapeCssId(buttonId) ELSE selector

\* const css = selector ? String(selector) : `#${escapeCssId(buttonId)}`
BuildCss(selector, buttonId) ==
    IF Truthy(selector) THEN selector ELSE <<"#">> \o escapeCssId(buttonId)

\* ------------------------------------------- how the page reads a selector

Letters ==
    {"a", "b", "c", "d", "e", "f", "g", "h", "i", "j", "k", "l", "m", "n", "o",
     "p", "q", "r", "s", "t", "u", "v", "w", "x", "y", "z", "A", "B", "C", "D",
     "E", "F", "G", "H", "I", "J", "K", "L", "M", "N", "O", "P", "Q", "R", "S",
     "T", "U", "V", "W", "X", "Y", "Z"}

Digits == {"0", "1", "2", "3", "4", "5", "6", "7", "8", "9"}

HexDigits == Digits \cup {"a", "b", "c", "d", "e", "f", "A", "B", "C", "D", "E", "F"}

\* CSS Syntax: an ident-start code point, and an ident code point.
IsIdentStart(c) == c \in Letters \cup {"_"}

IsIdentChar(c) == c \in Letters \cup Digits \cup {"_", "-"}

\* The code point a hexadecimal escape stands for; the model names the ones
\* of its alphabet and has one stand-in for the others.
HexChar(h) ==
    CASE h = <<"3", "1">> -> "1"
      [] h = <<"6", "1">> -> "a"
      [] h = <<"2", "0">> -> " "
      [] OTHER -> "U+"

\* The hexadecimal digits at the head of s, six at most.
RECURSIVE HexRun(_, _)
HexRun(s, n) ==
    IF n = 0 \/ s = <<>> \/ Head(s) \notin HexDigits THEN <<>>
    ELSE <<Head(s)>> \o HexRun(Tail(s), n - 1)

\* CSS Syntax, "consume an ident sequence": the name at the head of s and
\* what follows it. A backslash escapes the next character, or introduces up
\* to six hexadecimal digits and one optional space.
RECURSIVE ConsumeName(_)
ConsumeName(s) ==
    IF s = <<>> THEN [name |-> <<>>, rest |-> <<>>]
    ELSE IF IsIdentChar(Head(s))
    THEN LET r == ConsumeName(Tail(s))
         IN  [name |-> <<Head(s)>> \o r.name, rest |-> r.rest]
    ELSE IF Head(s) = "\\"
    THEN IF Len(s) = 1 THEN [name |-> <<"U+">>, rest |-> <<>>]
         ELSE IF s[2] \in HexDigits
         THEN LET h == HexRun(Tail(s), 6)
                  after == SubSeq(s, Len(h) + 2, Len(s))
                  r == ConsumeName(IF after # <<>> /\ Head(after) = " "
                                   THEN Tail(after) ELSE after)
              IN  [name |-> <<HexChar(h)>> \o r.name, rest |-> r.rest]
         ELSE LET r == ConsumeName(SubSeq(s, 3, Len(s)))
              IN  [name |-> <<s[2]>> \o r.name, rest |-> r.rest]
    ELSE [name |-> <<>>, rest |-> s]

\* CSS Syntax, "would start an identifier".
StartsIdentifier(s) ==
    /\ s # <<>>
    /\ \/ IsIdentStart(s[1])
       \/ s[1] = "\\"
       \/ /\ s[1] = "-"
          /\ Len(s) >= 2
          /\ IsIdentStart(s[2]) \/ s[2] \in {"-", "\\"}

\* document.querySelector(sel) for a selector meant as one id selector: the
\* id it selects by, or invalid when sel is not "#" and one identifier with
\* nothing after it.
ParseIdSelector(sel) ==
    IF sel = <<>> \/ Head(sel) # "#" \/ ~StartsIdentifier(Tail(sel))
    THEN [valid |-> FALSE, id |-> <<>>]
    ELSE LET r == ConsumeName(Tail(sel))
         IN  IF r.rest = <<>> THEN [valid |-> TRUE, id |-> r.name]
             ELSE [valid |-> FALSE, id |-> r.name]

\* ----------------------------------------------------------- the requests

\* The handler invocations the model follows.
Procs == {1, 2}

U == <<"u">>

\* req.body of POST /run: the fields the handler destructures.
Body(u, b, s, f, w, ws, x, j) ==
    [url |-> u, buttonId |-> b, selector |-> s, frameUrlContains |-> f,
     waitMs |-> w, waitForSelectorMs |-> ws, extraWaitAfterLoadMs |-> x,
     useJsClick |-> j]

\* The bodies that vary the validated fields: url, buttonId and selector,
\* each absent, empty or given.
ValidationBodies ==
    {Body(u, b, s, Undefined, NumUndefined, NumUndefined, NumUndefined, FALSE) :
        u \in {Undefined, <<>>, U},
        b \in {Undefined, <<>>, <<"a", ".", "b">>},
        s \in {Undefined, <<>>, <<".", "c">>}}

\* The bodies that vary the frame filter and the click strategy.
FrameBodies ==
    {Body(U, <<"a", ".", "b">>, Undefined, f, NumUndefined, NumUndefined, NumUndefined, j) :
        f \in {Undefined, <<>>, <<"x">>}, j \in BOOLEAN}

\* The bodies that vary one of the three durations.
TimingBodies ==
    {Body(U, <<"a", ".", "b">>, Undefined, Undefined, w, NumUndefined, NumUndefined, FALSE) :
        w \in {Num(0), Num(7)}}
    \cup {Body(U, <<"a", ".", "b">>, Undefined, Undefined, NumUndefined, ws, NumUndefined, TRUE) :
        ws \in {Num(0), Num(5)}}
    \cup {Body(U, <<"a", ".", "b">>, Undefined, <<"x">>, NumUndefined, NumUndefined, x, FALSE) :
        x \in {Num(0), Num(3)}}

Requests == ValidationBodies \cup FrameBodies \cup TimingBodies

NoRequest == [url |-> Undefined]

\* ------------------------------------------------------- the environment

\* The documents a page can show: what page.url() and page.title() return.
Docs ==
    {[url |-> <<"a">>, title |-> <<"T">>],
     [url |-> <<"x", "a">>, title |-> <<"S">>]}

NoDoc == [url |-> <<>>, title |-> <<>>]

\* navResp?.status?.() ?? null: the status of the response, or null.
HttpOk == <<"2", "0", "0">>

NavStatuses == {HttpOk, Null}

\* The message of the error an attempt of page.goto() rejects with: each
\* attempt fails with an error of its own.
NavError(attempt) ==
    CASE attempt = 1 -> "net::ERR_1"
      [] attempt = 2 -> "net::ERR_2"
      [] OTHER -> "net::ERR_3"

\* The frames nested in the page, by their URLs in enumeration order: none,
\* one without a URL, and frames whose URLs do and do not contain "x", one of
\* them containing "X" only.
ChildFrameLists ==
    {<<>>,
     << <<>> >>,
     << <<"b">> >>,
     << <<"b", "x">> >>,
     << <<>>, <<"b">> >>,
     << <<"b">>, <<"b", "x">> >>,
     << <<"b", "x">>, <<"x">> >>,
     << <<"X">>, <<"b", "x">> >>}

\* page.frames(): the main frame first, whose URL is the page's, then the
\* nested frames.
FrameLists(d) == {<<d.url>> \o children : children \in ChildFrameLists}

\* ----------------------------------------------------- execution contexts

\* let ctx = page
PageCtx == [kind |-> "page", idx |-> 0, url |-> Undefined]

\* A frame of page.frames(), by its place in the enumeration and its URL.
FrameCtx(i, u) == [kind |-> "frame", idx |-> i, url |-> u]

OnBrowser == [kind |-> "browser", idx |-> 0, url |-> Undefined]

\* frames.find(...) with the test inverted: the first frame that does not match.
FindFrameInverted(frames, sub) ==
    LET hits == {i \in 1..Len(frames) : ~Includes(frames[i], sub)}
    IN  IF hits = {} THEN 0 ELSE CHOOSE i \in hits : \A j \in hits : i <= j

\* frames.find((f) => (f.url() || "").includes(frameUrlContains)): the place of
\* the first frame whose URL contains the substring, 0 when there is none.
FindFrame(frames, sub) ==
    LET hits == {i \in 1..Len(frames) : Includes(frames[i], sub)}
    IN  IF hits = {} THEN 0 ELSE CHOOSE i \in hits : \A j \in hits : i <= j

\* frames.map((f) => f.url()).filter(Boolean): the non-empty URLs, in order.
FrameUrls(frames) == SelectSeq(frames, LAMBDA u : u # <<>>)

\* ------------------------------------------------------------- the state

VARIABLES
    pc,         \* per invocation: the await the handler is suspended at
    req,        \* per invocation: req.body
    loc,        \* per invocation: the handler's local variables
    browsers,   \* every browser process launched so far: "open" or "closed"
    doc,        \* per invocation: the document its page shows now
    present,    \* per invocation: the target element is in the context and visible
    effects,    \* per invocation: what each settled operation did in the browser
    responses,  \* per invocation: the responses sent on res
    logs,       \* per invocation: the console.error lines
    calls       \* per invocation: the browser operations the handler started

vars == <<pc, req, loc, browsers, doc, present, effects, responses, logs, calls>>

\* The handler's locals before the try block: let browser; and the rest unset.
InitLoc ==
    [browser |-> 0, attempts |-> 0, navStatus |-> Null, afterNavUrl |-> Undefined,
     ctx |-> PageCtx, css |-> Undefined, selectorTimeout |-> 0, sleepMs |-> 0,
     e |-> ""]

Init ==
    /\ pc = [p \in Procs |-> "idle"]
    /\ req = [p \in Procs |-> NoRequest]
    /\ loc = [p \in Procs |-> InitLoc]
    /\ browsers = <<>>
    /\ doc = [p \in Procs |-> NoDoc]
    /\ present = [p \in Procs |-> FALSE]
    /\ effects = [p \in Procs |-> <<>>]
    /\ responses = [p \in Procs |-> <<>>]
    /\ logs = [p \in Procs |-> <<>>]
    /\ calls = [p \in Procs |-> <<>>]

\* A browser operation the handler starts: its name, the browser it belongs
\* to, the object it is called on and its argument, which is a string (arg)
\* or, for a delay, a duration (ms); page.frames() has no argument, and the
\* list it returned is kept with the call (frames).
Call(o, b, on, arg) ==
    [op |-> o, b |-> b, on |-> on,
     arg |-> IF o \in {"waitForTimeout", "frames"} THEN Undefined ELSE arg,
     ms |-> IF o = "waitForTimeout" THEN arg ELSE 0,
     frames |-> IF o = "frames" THEN arg ELSE <<>>]

\* if (browser) with the test dropped: close is called whatever browser holds.
NeedsCloseAlways(b) == TRUE

\* if (browser) with the test inverted.
NeedsCloseNever(b) == FALSE

\* finally { if (browser) ... }: the handler's browser variable is set.
NeedsClose(b) == b # 0

\* The handler goes on to the next await: l are its locals now, cs the
\* operations it started in this step.
Continue(p, next, l, cs) ==
    /\ pc' = [pc EXCEPT ![p] = next]
    /\ loc' = [loc EXCEPT ![p] = l]
    /\ calls' = [calls EXCEPT ![p] = @ \o cs]
    /\ UNCHANGED <<responses, logs>>

\* return res.status(..).json(r) inside the try block, or from the catch
\* block: the response is sent, then the finally block runs and starts
\* browser.close() when the browser variable is set.
Return(p, l, r, lg, cs) ==
    /\ loc' = [loc EXCEPT ![p] = l]
    /\ responses' = [responses EXCEPT ![p] = Append(@, r)]
    /\ logs' = [logs EXCEPT ![p] = @ \o lg]
    /\ IF NeedsClose(l.browser)
       THEN /\ calls' = [calls EXCEPT ![p] = @ \o cs \o <<Call("close", l.browser, OnBrowser, Undefined)>>]
            /\ pc' = [pc EXCEPT ![p] = "closing"]
       ELSE /\ calls' = [calls EXCEPT ![p] = @ \o cs]
            /\ pc' = [pc EXCEPT ![p] = "done"]

\* The response of the catch block with the error's message left out.
GenericFailureNoMessage(msg) ==
    [status |-> 500, success |-> FALSE, error |-> <<"Internal error">>,
     hint |-> "See Render logs; consider frameUrlContains/useJsClick or longer waits."]

\* The response of the catch block.
GenericFailure(msg) ==
    [status |-> 500, success |-> FALSE, error |-> <<msg>>,
     hint |-> "See Render logs; consider frameUrlContains/useJsClick or longer waits."]

\* A catch block that takes an error after the click for harmless and
\* reports success.
CatchLenient(p, msg) ==
    IF <<"click", "done">> \in {effects[p][i] : i \in DOMAIN effects[p]}
    THEN Return(p, loc[p], [status |-> 200, success |-> TRUE], <<>>, <<>>)
    ELSE Return(p, loc[p], GenericFailure(msg),
                <<[line |-> "Error in /run:", err |-> msg]>>, <<>>)

\* An awaited operation rejects with an error of message msg outside the inner
\* try: control goes to catch (err), which logs and responds.
Catch(p, msg) ==
    Return(p, loc[p], GenericFailure(msg),
           <<[line |-> "Error in /run:", err |-> msg]>>, <<>>)

\* ------------------------------------------------------------- validation

\* The validation with its second test dropped.
ValidationErrorUrlOnly(body) ==
    IF ~Truthy(body.url) THEN <<"Missing url">> ELSE <<>>

\* if (!url) ...; if (!buttonId && !selector) ...: the error message of the
\* 400 response, the empty sequence when the body passes.
ValidationError(body) ==
    IF ~Truthy(body.url) THEN <<"Missing url">>
    ELSE IF ~Truthy(body.buttonId) /\ ~Truthy(body.selector)
         THEN <<"Provide buttonId or selector">>
         ELSE <<>>

\* app.post("/run", ...) up to the first await: the body is destructured and
\* validated, and puppeteer.launch() is started.
Run(p, body) ==
    /\ pc[p] = "idle"
    /\ req' = [req EXCEPT ![p] = body]
    /\ IF ValidationError(body) # <<>>
       THEN Return(p, loc[p],
                   [status |-> 400, success |-> FALSE, error |-> ValidationError(body)],
                   <<>>, <<>>)
       ELSE Continue(p, "launch", loc[p], <<Call("launch", 0, OnBrowser, Undefined)>>)
    /\ UNCHANGED <<browsers, doc, present, effects>>

\* ----------------------------------------------------- launch, page setup

\* A launch that hands every invocation the same browser process, the first.
NewBrowserShared(bs) == 1

\* puppeteer.launch() resolves to the process it has just started: the one
\* after those launched so far.
NewBrowser(bs) == Len(bs) + 1

\* browser = await puppeteer.launch(...): a new browser process, or an error.
Launch(p) ==
    /\ pc[p] = "launch"
    /\ \/ /\ browsers' = Append(browsers, "open")
          /\ effects' = [effects EXCEPT ![p] = Append(@, <<"launch", "ok">>)]
          /\ LET b == NewBrowser(browsers)
             IN  Continue(p, "newPage", [loc[p] EXCEPT !.browser = b],
                          <<Call("newPage", b, OnBrowser, Undefined)>>)
       \/ /\ effects' = [effects EXCEPT ![p] = Append(@, <<"launch", "rejected">>)]
          /\ Catch(p, "launch failed")
          /\ UNCHANGED browsers
    /\ UNCHANGED <<req, doc, present>>

\* One of the awaits between launch and navigation settles: it resolves and
\* the handler starts the next operation, or it rejects.
SetupStep(p, at, next, nextOp, arg, msg) ==
    /\ pc[p] = at
    /\ \/ /\ effects' = [effects EXCEPT ![p] = Append(@, <<at, "ok">>)]
          /\ Continue(p, next, loc[p], <<Call(nextOp, loc[p].browser, PageCtx, arg)>>)
       \/ /\ effects' = [effects EXCEPT ![p] = Append(@, <<at, "rejected">>)]
          /\ Catch(p, msg)
    /\ UNCHANGED <<req, browsers, doc, present>>

\* const page = await browser.newPage()
NewPage(p) ==
    SetupStep(p, "newPage", "setViewport", "setViewport", Undefined, "newPage failed")

\* await page.setViewport(...)
SetViewport(p) ==
    SetupStep(p, "setViewport", "setUserAgent", "setUserAgent", Undefined, "setViewport failed")

\* await page.setUserAgent(...), then pRetry starts the first page.goto(url).
SetUserAgent(p) ==
    /\ pc[p] = "setUserAgent"
    /\ \/ /\ effects' = [effects EXCEPT ![p] = Append(@, <<"setUserAgent", "ok">>)]
          /\ Continue(p, "goto", [loc[p] EXCEPT !.attempts = 1],
                      <<Call("goto", loc[p].browser, PageCtx, req[p].url)>>)
       \/ /\ effects' = [effects EXCEPT ![p] = Append(@, <<"setUserAgent", "rejected">>)]
          /\ Catch(p, "setUserAgent failed")
    /\ UNCHANGED <<req, browsers, doc, present>>

\* ------------------------------------------------------------- navigation

\* A retry policy one attempt too generous.
ShouldRetryOnceMore(attempt) == attempt <= RETRIES + 1

\* pRetry(..., { retries: 2 }): after the attempt of this number failed,
\* another one is made when retries are left.
ShouldRetry(attempt) == attempt <= RETRIES

\* Number.isFinite(Number(waitForSelectorMs)) ? Number(waitForSelectorMs)
\*                                             : CLICK_TIMEOUT_MS_DEFAULT
SelectorTimeout(v) == IF IsFiniteNumber(v) THEN v.n ELSE CLICK_TIMEOUT_MS_DEFAULT

\* Number.isFinite(Number(waitMs)) ? Number(waitMs) : DEFAULT_WAIT_MS
SleepMs(v) == IF IsFiniteNumber(v) THEN v.n ELSE DEFAULT_WAIT_MS

\* The frame-not-found response without the frame list.
FrameNotFoundResponseNoUrls(f, l, frames) ==
    [status |-> 408, success |-> FALSE,
     error |-> <<"Iframe not found for frameUrlContains=">> \o f,
     hint |-> "Inspect iframe src and pass a unique substring.",
     details |-> [afterNavUrl |-> l.afterNavUrl, navStatus |-> l.navStatus,
                  frameUrls |-> <<>>]]

\* res.status(408).json({ ..., details: { afterNavUrl, navStatus, frameUrls } })
FrameNotFoundResponse(f, l, frames) ==
    [status |-> 408, success |-> FALSE,
     error |-> <<"Iframe not found for frameUrlContains=">> \o f,
     hint |-> "Inspect iframe src and pass a unique substring.",
     details |-> [afterNavUrl |-> l.afterNavUrl, navStatus |-> l.navStatus,
                  frameUrls |-> FrameUrls(frames)]]

\* ctx = match
ChooseCtx(frames, m) == FrameCtx(m, frames[m])

\* Build the final selector and start the element wait on ctx.
Locate(p, l, cs) ==
    LET css == BuildCss(req[p].selector, req[p].buttonId)
        selectorTimeout == SelectorTimeout(req[p].waitForSelectorMs)
    IN  Continue(p, "waitForSelector",
                 [l EXCEPT !.css = css, !.selectorTimeout = selectorTimeout],
                 cs \o <<Call("waitForSelector", l.browser, l.ctx, css)>>)

\* Choose context (page or iframe), then go on to the element wait, all
\* without an await in between. d is the document the page shows, l the
\* locals, cs the operations started so far in this step.
ResolveContext(p, l, d, cs) ==
    LET f == req[p].frameUrlContains
    IN  IF Truthy(f)
        THEN \E frames \in FrameLists(d) :
                LET m == FindFrame(frames, f)
                    enumerated == cs \o <<Call("frames", l.browser, PageCtx, frames)>>
                IN  IF m = 0
                    THEN Return(p, l, FrameNotFoundResponse(f, l, frames),
                                <<[line |-> "Iframe not found", frameUrlContains |-> f,
                                   frameUrls |-> FrameUrls(frames)]>>,
                                enumerated)
                    ELSE Locate(p, [l EXCEPT !.ctx = ChooseCtx(frames, m)], enumerated)
        ELSE Locate(p, l, cs)

\* An attempt of page.goto(url) resolves: pRetry resolves, navStatus and
\* afterNavUrl are read, and the handler starts the extra wait or goes on to
\* the context.
GotoResolves(p) ==
    /\ pc[p] = "goto"
    /\ \E d \in Docs, st \in NavStatuses :
          /\ doc' = [doc EXCEPT ![p] = d]
          /\ effects' = [effects EXCEPT ![p] = Append(@, <<"goto", "ok", st>>)]
          /\ LET l == [loc[p] EXCEPT !.navStatus = st, !.afterNavUrl = d.url]
             IN  IF NumberGtZero(req[p].extraWaitAfterLoadMs)
                 THEN Continue(p, "extraWait", l,
                               <<Call("waitForTimeout", l.browser, PageCtx,
                                      req[p].extraWaitAfterLoadMs.n)>>)
                 ELSE ResolveContext(p, l, d, <<>>)
    /\ UNCHANGED <<req, browsers, present>>

\* An attempt of page.goto(url) rejects: pRetry makes another attempt while
\* retries are left, and rejects with this last error when none is.
GotoRejects(p) ==
    /\ pc[p] = "goto"
    /\ LET msg == NavError(loc[p].attempts)
       IN /\ effects' = [effects EXCEPT ![p] = Append(@, <<"goto", msg>>)]
          /\ IF ShouldRetry(loc[p].attempts)
             THEN Continue(p, "goto", [loc[p] EXCEPT !.attempts = @ + 1],
                           <<Call("goto", loc[p].browser, PageCtx, req[p].url)>>)
             ELSE Catch(p, msg)
    /\ UNCHANGED <<req, browsers, doc, present>>

\* await page.waitForTimeout(Number(extraWaitAfterLoadMs)) settles.
ExtraWait(p) ==
    /\ pc[p] = "extraWait"
    /\ \/ /\ effects' = [effects EXCEPT ![p] = Append(@, <<"extraWait", "done">>)]
          /\ ResolveContext(p, loc[p], doc[p], <<>>)
       \/ /\ effects' = [effects EXCEPT ![p] = Append(@, <<"extraWait", "rejected">>)]
          /\ Catch(p, "waitForTimeout failed")
    /\ UNCHANGED <<req, browsers, doc, present>>

\* ------------------------------------------------------- the element wait

\* The selector-timeout response reporting the URL read after navigation
\* where the current one belongs.
SelectorTimeoutResponseStaleUrl(l, f, finalUrl, pageTitle) ==
    [status |-> 408, success |-> FALSE,
     error |-> <<"Timeout waiting for selector ">> \o l.css,
     hint |-> IF Truthy(f)
              THEN "Check frameUrlContains or increase waitForSelectorMs."
              ELSE "If element is in an iframe, pass frameUrlContains; for SPA, increase waits.",
     details |-> [afterNavUrl |-> l.afterNavUrl, finalUrl |-> l.afterNavUrl,
                  navStatus |-> l.navStatus, pageTitle |-> pageTitle]]

\* res.status(408).json({ ..., details: { afterNavUrl, finalUrl, navStatus, pageTitle } })
SelectorTimeoutResponse(l, f, finalUrl, pageTitle) ==
    [status |-> 408, success |-> FALSE,
     error |-> <<"Timeout waiting for selector ">> \o l.css,
     hint |-> IF Truthy(f)
              THEN "Check frameUrlContains or increase waitForSelectorMs."
              ELSE "If element is in an iframe, pass frameUrlContains; for SPA, increase waits.",
     details |-> [afterNavUrl |-> l.afterNavUrl, finalUrl |-> finalUrl,
                  navStatus |-> l.navStatus, pageTitle |-> pageTitle]]

\* console.error("Timeout waiting for selector", { css, selectorTimeout, finalUrl, pageTitle })
SelectorTimeoutLog(l, finalUrl, pageTitle) ==
    [line |-> "Timeout waiting for selector", css |-> l.css,
     selectorTimeout |-> l.selectorTimeout, finalUrl |-> finalUrl,
     pageTitle |-> pageTitle]

\* await ctx.waitForSelector(css, { timeout, visible: true }) resolves once
\* the element is visible; the handler starts the scroll script.
WaitForSelectorResolves(p) ==
    /\ pc[p] = "waitForSelector"
    /\ present[p]
    /\ effects' = [effects EXCEPT ![p] = Append(@, <<"waitForSelector", "visible">>)]
    /\ Continue(p, "scroll", loc[p],
                <<Call("evaluateScroll", loc[p].browser, loc[p].ctx, loc[p].css)>>)
    /\ UNCHANGED <<req, browsers, doc, present>>

\* await ctx.waitForSelector(...) rejects: at the deadline with the element
\* not visible (a timeout of 0 disables the deadline), or with another error.
\* The inner catch (e) starts page.title().
WaitForSelectorRejects(p) ==
    /\ pc[p] = "waitForSelector"
    /\ \E e \in {"TimeoutError", "Error"} :
          /\ e = "TimeoutError" => ~present[p] /\ loc[p].selectorTimeout # 0
          /\ effects' = [effects EXCEPT ![p] = Append(@, <<"waitForSelector", e>>)]
          /\ Continue(p, "title", [loc[p] EXCEPT !.e = e],
                      <<Call("title", loc[p].browser, PageCtx, Undefined)>>)
    /\ UNCHANGED <<req, browsers, doc, present>>

\* await page.title().catch(() => null) settles, page.url() is read, the
\* timeout is logged and reported.
Title(p) ==
    /\ pc[p] = "title"
    /\ \E pageTitle \in {doc[p].title, Null} :
          LET finalUrl == doc[p].url
          IN  /\ effects' = [effects EXCEPT ![p] =
                               Append(@, <<"title", IF pageTitle = Null THEN "rejected" ELSE "ok">>)]
              /\ Return(p, loc[p],
                        SelectorTimeoutResponse(loc[p], req[p].frameUrlContains, finalUrl, pageTitle),
                        <<SelectorTimeoutLog(loc[p], finalUrl, pageTitle)>>,
                        <<Call("url", loc[p].browser, PageCtx, Undefined)>>)
    /\ UNCHANGED <<req, browsers, doc, present>>

\* --------------------------------------------------------- scroll + click

\* The click failure reported as if the element wait had timed out.
ClickFailureResponseAsTimeout(css) ==
    [status |-> 408, success |-> FALSE, error |-> <<"Timeout waiting for selector ">> \o css]

\* res.status(500).json({ success: false, error: "Failed to JS-click " + css })
ClickFailureResponse(css) ==
    [status |-> 500, success |-> FALSE, error |-> <<"Failed to JS-click ">> \o css]

\* The success payload reporting the default wait whatever was applied.
SuccessResponseDefaultWait(r, l, finalUrl) ==
    [status |-> 200, success |-> TRUE,
     details |-> [url |-> r.url, finalUrl |-> finalUrl, httpStatus |-> l.navStatus,
                  usedSelector |-> l.css,
                  usedFrameFilter |-> IF Truthy(r.frameUrlContains)
                                      THEN r.frameUrlContains ELSE Null,
                  waitedMs |-> DEFAULT_WAIT_MS]]

\* res.json({ success: true, details: { url, finalUrl, httpStatus, usedSelector,
\* usedFrameFilter, waitedMs, elapsedMs } }); the model has no clock and
\* leaves elapsedMs out.
SuccessResponse(r, l, finalUrl) ==
    [status |-> 200, success |-> TRUE,
     details |-> [url |-> r.url, finalUrl |-> finalUrl, httpStatus |-> l.navStatus,
                  usedSelector |-> l.css,
                  usedFrameFilter |-> IF Truthy(r.frameUrlContains)
                                      THEN r.frameUrlContains ELSE Null,
                  waitedMs |-> l.sleepMs]]

\* The click is done: sleepMs is computed and the post-click wait started.
StartPostWait(p) ==
    LET sleepMs == SleepMs(req[p].waitMs)
    IN  Continue(p, "postWait", [loc[p] EXCEPT !.sleepMs = sleepMs],
                 <<Call("waitForTimeout", loc[p].browser, loc[p].ctx, sleepMs)>>)

\* await ctx.evaluate(sel => document.querySelector(sel)?.scrollIntoView(...), css)
\* settles: it scrolls the element when there is one and does nothing when
\* there is none, or the evaluation rejects. Then the click is started.
Scroll(p) ==
    /\ pc[p] = "scroll"
    /\ \/ /\ effects' = [effects EXCEPT ![p] =
                           Append(@, <<"scroll", IF present[p] THEN "done" ELSE "noElement">>)]
          /\ IF req[p].useJsClick
             THEN Continue(p, "jsClick", loc[p],
                           <<Call("evaluateClick", loc[p].browser, loc[p].ctx, loc[p].css)>>)
             ELSE Continue(p, "click", loc[p],
                           <<Call("click", loc[p].browser, loc[p].ctx, loc[p].css)>>)
       \/ /\ effects' = [effects EXCEPT ![p] = Append(@, <<"scroll", "rejected">>)]
          /\ Catch(p, "evaluate failed")
    /\ UNCHANGED <<req, browsers, doc, present>>

\* const clicked = await ctx.evaluate(sel => { ...; el.click(); return true }, css)
\* settles: true with the element clicked, false with no element, or the
\* evaluation rejects.
JsClick(p) ==
    /\ pc[p] = "jsClick"
    /\ \/ /\ present[p]
          /\ effects' = [effects EXCEPT ![p] = Append(@, <<"click", "done">>)]
          /\ StartPostWait(p)
       \/ /\ ~present[p]
          /\ effects' = [effects EXCEPT ![p] = Append(@, <<"click", "noElement">>)]
          /\ Return(p, loc[p], ClickFailureResponse(loc[p].css),
                    <<[line |-> "JS click failed", css |-> loc[p].css]>>, <<>>)
       \/ /\ effects' = [effects EXCEPT ![p] = Append(@, <<"click", "rejected">>)]
          /\ Catch(p, "evaluate failed")
    /\ UNCHANGED <<req, browsers, doc, present>>

\* The pointer click wrapped in pRetry like the navigation: a click that
\* rejects is made again while retries are left.
ClickRetried(p) ==
    /\ pc[p] = "click"
    /\ \/ /\ present[p]
          /\ effects' = [effects EXCEPT ![p] = Append(@, <<"click", "done">>)]
          /\ StartPostWait(p)
       \/ /\ effects' = [effects EXCEPT ![p] = Append(@, <<"click", "rejected">>)]
          /\ IF Cardinality({i \in DOMAIN calls[p] : calls[p][i].op = "click"}) <= RETRIES
             THEN Continue(p, "click", loc[p],
                           <<Call("click", loc[p].browser, loc[p].ctx, loc[p].css)>>)
             ELSE Catch(p, "click failed")
    /\ UNCHANGED <<req, browsers, doc, present>>

\* await ctx.click(css, { delay: 25 }) settles: the element is clicked, or
\* the click rejects (no element for the selector, or another error).
Click(p) ==
    /\ pc[p] = "click"
    /\ \/ /\ present[p]
          /\ effects' = [effects EXCEPT ![p] = Append(@, <<"click", "done">>)]
          /\ StartPostWait(p)
       \/ /\ effects' = [effects EXCEPT ![p] = Append(@, <<"click", "rejected">>)]
          /\ Catch(p, "click failed")
    /\ UNCHANGED <<req, browsers, doc, present>>

\* await ctx.waitForTimeout(sleepMs) settles: page.url() is read and success
\* reported, or the wait rejects.
PostWait(p) ==
    /\ pc[p] = "postWait"
    /\ \/ /\ effects' = [effects EXCEPT ![p] = Append(@, <<"postWait", "done">>)]
          /\ Return(p, loc[p], SuccessResponse(req[p], loc[p], doc[p].url), <<>>,
                    <<Call("url", loc[p].browser, PageCtx, Undefined)>>)
       \/ /\ effects' = [effects EXCEPT ![p] = Append(@, <<"postWait", "rejected">>)]
          /\ Catch(p, "waitForTimeout failed")
    /\ UNCHANGED <<req, browsers, doc, present>>

\* --------------------------------------------------------------- teardown

\* await browser.close() without the try/catch around it: a close that
\* rejects propagates out of the finally block and the handler rejects.
CloseUnguarded(p) ==
    /\ pc[p] = "closing"
    /\ \/ /\ browsers' = [browsers EXCEPT ![loc[p].browser] = "closed"]
          /\ effects' = [effects EXCEPT ![p] = Append(@, <<"close", "done">>)]
          /\ pc' = [pc EXCEPT ![p] = "done"]
       \/ /\ effects' = [effects EXCEPT ![p] = Append(@, <<"close", "rejected">>)]
          /\ pc' = [pc EXCEPT ![p] = "rejected"]
          /\ UNCHANGED browsers
    /\ UNCHANGED <<req, loc, doc, present, responses, logs, calls>>

\* try { await browser.close(); } catch {} settles: the browser is closed, or
\* close rejects and the error is swallowed. Either way the handler is done.
Close(p) ==
    /\ pc[p] = "closing"
    /\ \/ /\ browsers' = [browsers EXCEPT ![loc[p].browser] = "closed"]
          /\ effects' = [effects EXCEPT ![p] = Append(@, <<"close", "done">>)]
       \/ /\ effects' = [effects EXCEPT ![p] = Append(@, <<"close", "rejected">>)]
          /\ UNCHANGED browsers
    /\ pc' = [pc EXCEPT ![p] = "done"]
    /\ UNCHANGED <<req, loc, doc, present, responses, logs, calls>>

\* --------------------------------------------------------------- GET /info

\* req.query of GET /info.
Query(u) == [route |-> "info", url |-> u]

\* The urls a probe is asked with: absent, empty or given.
InfoUrls == {Undefined, <<>>, U}

\* The ok response with the title taken from an earlier read.
InfoResponseNoTitle(finalUrl, httpStatus, title) ==
    [status |-> 200, ok |-> TRUE, finalUrl |-> finalUrl, httpStatus |-> httpStatus,
     title |-> Null]

\* res.json({ ok: true, finalUrl: page.url(), httpStatus: resp?.status?.() ?? null, title })
InfoResponse(finalUrl, httpStatus, title) ==
    [status |-> 200, ok |-> TRUE, finalUrl |-> finalUrl, httpStatus |-> httpStatus,
     title |-> title]

\* The failure response of a handler that keeps its browsers in a pool
\* shared by the invocations, and fails when the pool is used up.
InfoFailurePooled(msg) ==
    IF Len(browsers) > 1
    THEN [status |-> 500, ok |-> FALSE, error |-> <<"browser pool exhausted">>]
    ELSE [status |-> 500, ok |-> FALSE, error |-> <<msg>>]

\* res.status(500).json({ ok: false, error: String(err?.message || err) })
InfoFailure(msg) == [status |-> 500, ok |-> FALSE, error |-> <<msg>>]

\* return res...json(r) in /info, from the try or the catch block: the
\* response is sent, then the finally block starts browser.close() when the
\* browser variable is set.
InfoReturn(p, l, r, lg, cs) ==
    /\ loc' = [loc EXCEPT ![p] = l]
    /\ responses' = [responses EXCEPT ![p] = Append(@, r)]
    /\ logs' = [logs EXCEPT ![p] = @ \o lg]
    /\ IF NeedsClose(l.browser)
       THEN /\ calls' = [calls EXCEPT ![p] = @ \o cs \o <<Call("close", l.browser, OnBrowser, Undefined)>>]
            /\ pc' = [pc EXCEPT ![p] = "infoClosing"]
       ELSE /\ calls' = [calls EXCEPT ![p] = @ \o cs]
            /\ pc' = [pc EXCEPT ![p] = "done"]

\* An awaited operation of /info rejects: catch (err) logs and responds.
InfoCatch(p, msg) ==
    InfoReturn(p, loc[p], InfoFailure(msg),
               <<[line |-> "Error in /info:", err |-> msg]>>, <<>>)

\* app.get("/info", ...) up to the first await: the url is read and checked,
\* and puppeteer.launch() is started.
Info(p, u) ==
    /\ pc[p] = "idle"
    /\ req' = [req EXCEPT ![p] = Query(u)]
    /\ IF ~Truthy(u)
       THEN InfoReturn(p, loc[p], [status |-> 400, ok |-> FALSE, error |-> <<"Missing url">>],
                       <<>>, <<>>)
       ELSE Continue(p, "infoLaunch", loc[p], <<Call("launch", 0, OnBrowser, Undefined)>>)
    /\ UNCHANGED <<browsers, doc, present, effects>>

\* browser = await puppeteer.launch(...) in /info.
InfoLaunch(p) ==
    /\ pc[p] = "infoLaunch"
    /\ \/ /\ browsers' = Append(browsers, "open")
          /\ effects' = [effects EXCEPT ![p] = Append(@, <<"launch", "ok">>)]
          /\ LET b == NewBrowser(browsers)
             IN  Continue(p, "infoNewPage", [loc[p] EXCEPT !.browser = b],
                          <<Call("newPage", b, OnBrowser, Undefined)>>)
       \/ /\ effects' = [effects EXCEPT ![p] = Append(@, <<"launch", "rejected">>)]
          /\ InfoCatch(p, "launch failed")
          /\ UNCHANGED browsers
    /\ UNCHANGED <<req, doc, present>>

\* One of the awaits of /info between launch and navigation settles.
InfoSetupStep(p, op, next, nextOp, arg, msg) ==
    \/ /\ effects' = [effects EXCEPT ![p] = Append(@, <<op, "ok">>)]
       /\ Continue(p, next, loc[p], <<Call(nextOp, loc[p].browser, PageCtx, arg)>>)
    \/ /\ effects' = [effects EXCEPT ![p] = Append(@, <<op, "rejected">>)]
       /\ InfoCatch(p, msg)

\* const page = await browser.newPage() in /info.
InfoNewPage(p) ==
    /\ pc[p] = "infoNewPage"
    /\ InfoSetupStep(p, "newPage", "infoSetViewport", "setViewport", Undefined, "newPage failed")
    /\ UNCHANGED <<req, browsers, doc, present>>

\* await page.setViewport(...) in /info.
InfoSetViewport(p) ==
    /\ pc[p] = "infoSetViewport"
    /\ InfoSetupStep(p, "setViewport", "infoSetUserAgent", "setUserAgent", Undefined,
                     "setViewport failed")
    /\ UNCHANGED <<req, browsers, doc, present>>

\* await page.setUserAgent(...) in /info, then page.goto(url) is started.
InfoSetUserAgent(p) ==
    /\ pc[p] = "infoSetUserAgent"
    /\ InfoSetupStep(p, "setUserAgent", "infoGoto", "goto", req[p].url, "setUserAgent failed")
    /\ UNCHANGED <<req, browsers, doc, present>>

\* const resp = await page.goto(url, ...) settles: the one attempt resolves
\* and page.title() is started, or it rejects.
InfoGoto(p) ==
    /\ pc[p] = "infoGoto"
    /\ \/ \E d \in Docs, st \in NavStatuses :
             /\ doc' = [doc EXCEPT ![p] = d]
             /\ effects' = [effects EXCEPT ![p] = Append(@, <<"goto", "ok", st>>)]
             /\ Continue(p, "infoTitle", [loc[p] EXCEPT !.navStatus = st, !.attempts = 1],
                         <<Call("title", loc[p].browser, PageCtx, Undefined)>>)
       \/ /\ effects' = [effects EXCEPT ![p] = Append(@, <<"goto", NavError(1)>>)]
          /\ InfoCatch(p, NavError(1))
          /\ UNCHANGED doc
    /\ UNCHANGED <<req, browsers, present>>

\* const title = await page.title().catch(() => null) settles; page.url() is
\* read and the ok response sent.
InfoTitle(p) ==
    /\ pc[p] = "infoTitle"
    /\ \E title \in {doc[p].title, Null} :
          /\ effects' = [effects EXCEPT ![p] =
                           Append(@, <<"title", IF title = Null THEN "rejected" ELSE "ok">>)]
          /\ InfoReturn(p, loc[p], InfoResponse(doc[p].url, loc[p].navStatus, title), <<>>,
                        <<Call("url", loc[p].browser, PageCtx, Undefined)>>)
    /\ UNCHANGED <<req, browsers, doc, present>>

\* try { await browser.close(); } catch {} of /info settles.
InfoClose(p) ==
    /\ pc[p] = "infoClosing"
    /\ \/ /\ browsers' = [browsers EXCEPT ![loc[p].browser] = "closed"]
          /\ effects' = [effects EXCEPT ![p] = Append(@, <<"close", "done">>)]
       \/ /\ effects' = [effects EXCEPT ![p] = Append(@, <<"close", "rejected">>)]
          /\ UNCHANGED browsers
    /\ pc' = [pc EXCEPT ![p] = "done"]
    /\ UNCHANGED <<req, loc, doc, present, responses, logs, calls>>

\* ------------------------------------------------- the page's own changes

\* The stages in which the page is loaded and the handler awaits something.
Loaded ==
    {"extraWait", "waitForSelector", "title", "scroll", "jsClick", "click", "postWait",
     "infoTitle"}

\* The page moves to another document by itself (a redirect, a script).
DocChanges(p) ==
    /\ pc[p] \in Loaded
    /\ \E d \in Docs \ {doc[p]} : doc' = [doc EXCEPT ![p] = d]
    /\ UNCHANGED <<pc, req, loc, browsers, present, effects, responses, logs, calls>>

\* The target element appears in the context, or disappears from it.
ElementChanges(p) ==
    /\ pc[p] \in {"waitForSelector", "scroll", "jsClick", "click"}
    /\ present' = [present EXCEPT ![p] = ~@]
    /\ UNCHANGED <<pc, req, loc, browsers, doc, effects, responses, logs, calls>>

\* ------------------------------------------------------ the specification

\* The invocations that run in Spec: one request at a time.
MainProcs == {1}

\* The awaits of POST /run settling, one at a time.
Invoke(p) ==
    \/ Launch(p)
    \/ NewPage(p)
    \/ SetViewport(p)
    \/ SetUserAgent(p)
    \/ GotoResolves(p)
    \/ GotoRejects(p)
    \/ ExtraWait(p)
    \/ WaitForSelectorResolves(p)
    \/ WaitForSelectorRejects(p)
    \/ Title(p)
    \/ Scroll(p)
    \/ JsClick(p)
    \/ Click(p)
    \/ PostWait(p)
    \/ Close(p)

Handler(p) ==
    \/ Invoke(p)
    \/ DocChanges(p)
    \/ ElementChanges(p)

Next ==
    \E p \in MainProcs :
        \/ \E body \in Requests : Run(p, body)
        \/ Handler(p)

Spec == Init /\ [][Next]_vars

\* ----------------------------------------------------- two invocations

\* A request that clicks with the pointer.
PointerBody ==
    Body(U, <<"a", ".", "b">>, Undefined, Undefined, NumUndefined, NumUndefined, NumUndefined, FALSE)

\* A request that clicks by script after an extra wait.
ScriptBody ==
    Body(U, <<"a", ".", "b">>, Undefined, Undefined, NumUndefined, NumUndefined, Num(3), TRUE)

\* The awaits of GET /info settling, one at a time.
Probe(p) ==
    \/ InfoLaunch(p)
    \/ InfoNewPage(p)
    \/ InfoSetViewport(p)
    \/ InfoSetUserAgent(p)
    \/ InfoGoto(p)
    \/ InfoTitle(p)
    \/ InfoClose(p)

\* A GET /info invocation after or beside another invocation, which is a
\* GET /info or a POST /run: their awaits settle in any order.
NextInfo ==
    \/ \E body \in {PointerBody, ScriptBody} : Run(1, body)
    \/ \E p \in Procs :
          \/ \E u \in InfoUrls : Info(p, u)
          \/ Invoke(p)
          \/ Probe(p)
          \/ DocChanges(p)
          \/ ElementChanges(p)

SpecInfo == Init /\ [][NextInfo]_vars

\* Two POST /run invocations whose awaits settle in any order; each page
\* stays on the document it navigated to, and an element that has appeared
\* stays.
NextConcurrent ==
    \/ Run(1, PointerBody)
    \/ Run(2, ScriptBody)
    \/ \E p \in Procs :
          \/ Invoke(p)
          \/ ElementChanges(p) /\ present'[p]

SpecConcurrent == Init /\ [][NextConcurrent]_vars

\* One invocation of either route, with any of the requests.
NextEither ==
    \E p \in MainProcs :
        \/ \E body \in Requests : Run(p, body)
        \/ \E u \in InfoUrls : Info(p, u)
        \/ Invoke(p)
        \/ Probe(p)
        \/ DocChanges(p)
        \/ ElementChanges(p)

SpecEither == Init /\ [][NextEither]_vars

\* --------------------------------------------------------- fair settling

\* The element wait ends at its deadline.
WaitForSelectorTimesOut(p) ==
    WaitForSelectorRejects(p) /\ loc'[p].e = "TimeoutError"

\* A pending await of POST /run settles the way the browser is bound to
\* settle it in the end: every operation but the element wait returns or
\* raises (launch and navigation have timeouts of their own, the delays run
\* out); the element wait resolves while the element is visible or ends at
\* its deadline, when it has one.
Settles(p) ==
    \/ Launch(p)
    \/ NewPage(p)
    \/ SetViewport(p)
    \/ SetUserAgent(p)
    \/ GotoResolves(p)
    \/ GotoRejects(p)
    \/ ExtraWait(p)
    \/ WaitForSelectorResolves(p)
    \/ WaitForSelectorTimesOut(p)
    \/ Title(p)
    \/ Scroll(p)
    \/ JsClick(p)
    \/ Click(p)
    \/ PostWait(p)
    \/ Close(p)

\* POST /run with every pending await settled in the end.
FairSpec == Spec /\ \A p \in MainProcs : WF_vars(Settles(p))

\* ------------------------------------- the selector derivation on its own

\* The characters buttonIds are drawn from: a letter, a digit, the space and
\* the reserved punctuation.
IdChars == ReservedChars \cup {"a", "1"}

RECURSIVE IdsUpTo(_)
IdsUpTo(n) ==
    IF n = 0 THEN {<<>>}
    ELSE LET shorter == IdsUpTo(n - 1)
         IN  shorter \cup {Append(q, c) : q \in shorter, c \in IdChars}

\* The requests that click by id, one for every non-empty buttonId.
IdBodies ==
    {Body(U, id, Undefined, Undefined, NumUndefined, NumUndefined, NumUndefined, FALSE) :
        id \in IdsUpTo(MaxIdLen) \ {<<>>}}

InitIds ==
    /\ pc = [p \in Procs |-> "idle"]
    /\ \E body \in IdBodies : req = [p \in Procs |-> IF p \in MainProcs THEN body ELSE NoRequest]
    /\ loc = [p \in Procs |-> InitLoc]
    /\ browsers = <<>>
    /\ doc = [p \in Procs |-> NoDoc]
    /\ present = [p \in Procs |-> FALSE]
    /\ effects = [p \in Procs |-> <<>>]
    /\ responses = [p \in Procs |-> <<>>]
    /\ logs = [p \in Procs |-> <<>>]
    /\ calls = [p \in Procs |-> <<>>]

\* Build final selector, and nothing else of the handler.
BuildSelector(p) ==
    /\ pc[p] = "idle"
    /\ req[p] # NoRequest
    /\ pc' = [pc EXCEPT ![p] = "built"]
    /\ loc' = [loc EXCEPT ![p].css = BuildCss(req[p].selector, req[p].buttonId)]
    /\ UNCHANGED <<req, browsers, doc, present, effects, responses, logs, calls>>

NextIds == \E p \in MainProcs : BuildSelector(p)

SpecIds == InitIds /\ [][NextIds]_vars

\* ------------------------------------------------- what the claims read

\* The settled operations of one kind, in order.
EffectsOf(p, what) == SelectSeq(effects[p], LAMBDA x : x[1] = what)

\* The places in calls[p] of the operations of one kind.
CallsOf(p, o) == {i \in DOMAIN calls[p] : calls[p][i].op = o}

\* The browser launch of p's invocation succeeded.
LaunchSucceeded(p) == <<"launch", "ok">> \in {effects[p][i] : i \in DOMAIN effects[p]}

LaunchFailed(p) == <<"launch", "rejected">> \in {effects[p][i] : i \in DOMAIN effects[p]}

\* p's handler started browser.close() on the browser it launched.
CloseAttempted(p) ==
    \E i \in CallsOf(p, "close") : calls[p][i].b = loc[p].browser /\ loc[p].browser # 0

Responded(p) == responses[p] # <<>>

\* The operations of the stages after navigation.
LaterStageOps ==
    {"frames", "waitForSelector", "title", "evaluateScroll", "evaluateClick", "click"}

\* The post-click wait: waitForTimeout called on the context after a click.
PostWaitStarted(p) ==
    \E i \in CallsOf(p, "waitForTimeout") :
        \E j \in CallsOf(p, "click") \cup CallsOf(p, "evaluateClick") : j < i

Succeeded(p) == \E i \in DOMAIN responses[p] : responses[p][i].success

\* ------------------------------------------------------------------- C1

\* C1: when the launch of an invocation succeeded, its handler has attempted
\* to close that browser by the time it finishes, whichever way it exits;
\* when the launch failed (or never happened), no close is ever attempted.
C1_CloseOnEveryExit ==
    \A p \in Procs :
        /\ (pc[p] = "done" /\ LaunchSucceeded(p)) => CloseAttempted(p)
        /\ ~LaunchSucceeded(p) => CallsOf(p, "close") = {}

\* A launched invocation that failed in a later stage (the post-click wait
\* rejected) has finished with close attempted.
C1_Witness ==
    \E p \in Procs :
        /\ pc[p] = "done"
        /\ LaunchSucceeded(p)
        /\ <<"postWait", "rejected">> \in {effects[p][i] : i \in DOMAIN effects[p]}
        /\ CloseAttempted(p)

\* ------------------------------------------------------------------- C2

\* C2 as claimed: whenever a launched invocation has sent its response, its
\* browser is already closed.
C2_ClosedBeforeResponse ==
    \A p \in Procs :
        (LaunchSucceeded(p) /\ Responded(p)) => browsers[loc[p].browser] = "closed"

\* C2 as amended: in a launched invocation the response is sent first and the
\* close is started right after it: close is attempted exactly when the
\* response has been sent, the browser is never closed before the response,
\* and the handler does not finish without the close attempt.
C2_ResponseThenClose ==
    \A p \in Procs :
        LaunchSucceeded(p) =>
            /\ CloseAttempted(p) <=> Responded(p)
            /\ browsers[loc[p].browser] = "closed" => Responded(p)
            /\ pc[p] = "done" => CloseAttempted(p)

\* A launched invocation has sent its success response and its browser is
\* still open, the close pending.
C2_Witness ==
    \E p \in Procs :
        /\ LaunchSucceeded(p)
        /\ Succeeded(p)
        /\ pc[p] = "closing"
        /\ browsers[loc[p].browser] = "open"

\* ------------------------------------------------------------------- C3

\* The body has no url, or neither buttonId nor selector.
Invalid(body) ==
    \/ body.url \in {Undefined, Null, <<>>}
    \/ /\ body.buttonId \in {Undefined, Null, <<>>}
       /\ body.selector \in {Undefined, Null, <<>>}

\* C3: a request with no url, or with neither buttonId nor selector, gets a
\* single 400 response, and no browser operation is ever started for it.
C3_ValidationBeforeLaunch ==
    \A p \in Procs :
        (req[p] # NoRequest /\ Invalid(req[p])) =>
            /\ Len(responses[p]) = 1
            /\ responses[p][1].status = 400
            /\ ~responses[p][1].success
            /\ calls[p] = <<>>
            /\ effects[p] = <<>>
            /\ loc[p].browser = 0
            /\ pc[p] = "done"

\* A request with a url but neither buttonId nor selector was refused.
C3_Witness ==
    \E p \in Procs :
        /\ req[p] # NoRequest
        /\ req[p].url = U
        /\ req[p].buttonId = <<>>
        /\ req[p].selector = Undefined
        /\ Responded(p)

\* ------------------------------------------------------------------- C4

\* The outcomes of the navigation attempts made so far, in order.
GotoOutcomes(p) == EffectsOf(p, "goto")

\* C4: navigation is attempted at most 3 times and never after a success;
\* the handler goes on to the later stages exactly when an attempt succeeded;
\* and after three failures the only response is the failure carrying the
\* third attempt's error (another error than the first attempt's), with no
\* later-stage operation and no success; before that, a failed attempt ends
\* nothing.
C4_NavigationRetry ==
    \A p \in Procs :
        LET g == GotoOutcomes(p)
            ok == \E i \in DOMAIN g : g[i][2] = "ok"
            later == \E i \in DOMAIN calls[p] :
                        calls[p][i].op \in LaterStageOps \cup {"waitForTimeout"}
        IN  /\ Len(g) <= 3
            /\ Cardinality(CallsOf(p, "goto")) <= 3
            /\ \A i \in DOMAIN g : g[i][2] = "ok" => i = Len(g)
            /\ ok => Cardinality(CallsOf(p, "goto")) = Len(g)
            /\ later <=> ok
            /\ (Len(g) = 3 /\ ~ok) =>
                  /\ Len(responses[p]) = 1
                  /\ responses[p][1].status = 500
                  /\ ~responses[p][1].success
                  /\ responses[p][1].error = <<g[3][2]>>
                  /\ g[3][2] # g[1][2]
            /\ (Len(g) \in {1, 2} /\ ~ok) => ~Responded(p) /\ pc[p] = "goto"

\* Navigation failed twice and succeeded at the third attempt, and the
\* handler went on to the element wait.
C4_Witness ==
    \E p \in Procs :
        /\ Len(GotoOutcomes(p)) = 3
        /\ GotoOutcomes(p)[1][2] # "ok"
        /\ GotoOutcomes(p)[2][2] # "ok"
        /\ GotoOutcomes(p)[3][2] = "ok"
        /\ CallsOf(p, "waitForSelector") # {}

\* ------------------------------------------------------------------- C5

\* The frames a page.frames() call of p returned, when it made one.
Enumerated(p) == {calls[p][i].frames : i \in CallsOf(p, "frames")}

\* out lists the non-empty entries of frames, all of them and in order: its
\* k-th entry is the k-th non-empty entry of frames.
ListsNonEmpty(out, frames) ==
    LET idx == {i \in DOMAIN frames : frames[i] # <<>>}
    IN  /\ Len(out) = Cardinality(idx)
        /\ \A i \in idx : out[Cardinality({j \in idx : j <= i})] = frames[i]

\* C5: when a frame filter is given and no enumerated frame's URL contains
\* it, the only response is the 408 frame-not-found one, whose frameUrls are
\* the non-empty enumerated URLs in order, and no element wait, scroll or
\* click is started.
C5_FrameNotFound ==
    \A p \in Procs : \A frames \in Enumerated(p) :
        (\A i \in DOMAIN frames : ~Includes(frames[i], req[p].frameUrlContains)) =>
            /\ Len(responses[p]) = 1
            /\ responses[p][1].status = 408
            /\ ~responses[p][1].success
            /\ responses[p][1].error[1] = "Iframe not found for frameUrlContains="
            /\ ListsNonEmpty(responses[p][1].details.frameUrls, frames)
            /\ \A i \in DOMAIN calls[p] :
                  calls[p][i].op \notin {"waitForSelector", "evaluateScroll", "evaluateClick", "click"}
            /\ Cardinality(CallsOf(p, "frames")) = 1

\* No frame matched an enumeration holding a frame without a URL between two
\* with one, and the response lists the two.
C5_Witness ==
    \E p \in Procs :
        /\ Enumerated(p) = {<< <<"a">>, <<>>, <<"b">> >>}
        /\ Responded(p)
        /\ responses[p][1].details.frameUrls = << <<"a">>, <<"b">> >>

\* ------------------------------------------------------------------- C6

\* The operations started on the execution context.
CtxOps == {"waitForSelector", "evaluateScroll", "evaluateClick", "click"}

\* C6 as claimed: with a frame filter in the request, every wait, scroll and
\* click runs in a nested frame whose URL contains the filter, never in the
\* top document (the page or its main frame, the first of page.frames()).
C6_NestedFrameOnly ==
    \A p \in Procs : \A i \in DOMAIN calls[p] :
        (calls[p][i].op \in CtxOps /\ req[p].frameUrlContains \notin {Undefined, Null, <<>>}) =>
            /\ calls[p][i].on.kind = "frame"
            /\ calls[p][i].on.idx > 1
            /\ Includes(calls[p][i].on.url, req[p].frameUrlContains)

\* ------------------------------------------------------------------- C7

\* The selector the request asks for: the raw selector when one is given,
\* otherwise # and the escaped buttonId.
Asked(body) ==
    IF body.selector \notin {Undefined, Null, <<>>}
    THEN body.selector
    ELSE <<"#">> \o escapeCssId(body.buttonId)

\* C7: every wait, scroll and click of a request is given the same selector,
\* the one the request asks for, and a success response reports that one.
C7_OneSelector ==
    \A p \in Procs :
        /\ \A i \in DOMAIN calls[p] :
              calls[p][i].op \in CtxOps => calls[p][i].arg = Asked(req[p])
        /\ \A i \in DOMAIN responses[p] :
              responses[p][i].success =>
                  responses[p][i].details.usedSelector = Asked(req[p])

\* A request giving both buttonId and selector succeeded and reports the raw
\* selector, which the wait, the scroll and the click were given.
C7_Witness ==
    \E p \in Procs :
        /\ Succeeded(p)
        /\ req[p].buttonId = <<"a", ".", "b">>
        /\ req[p].selector = <<".", "c">>
        /\ responses[p][1].details.usedSelector = <<".", "c">>
        /\ \A o \in {"waitForSelector", "evaluateScroll", "click"} : CallsOf(p, o) # {}

\* ------------------------------------------------------------------- C9

\* The element wait of p ended at its deadline with the element not visible.
WaitTimedOut(p) ==
    <<"waitForSelector", "TimeoutError">> \in {effects[p][i] : i \in DOMAIN effects[p]}

TitleRejected(p) == <<"title", "rejected">> \in {effects[p][i] : i \in DOMAIN effects[p]}

\* C9 as claimed: after a selector timeout the response's details hold the
\* selector attempted, the timeout used, the page's current URL and its title.
C9_DetailsHoldSelectorAndTimeout ==
    \A p \in Procs :
        (WaitTimedOut(p) /\ Responded(p)) =>
            LET d == responses[p][1].details
            IN  /\ \E k \in DOMAIN d : d[k] = loc[p].css
                /\ "selectorTimeout" \in DOMAIN d
                /\ d.finalUrl = doc[p].url
                /\ d.pageTitle = IF TitleRejected(p) THEN Null ELSE doc[p].title

\* C9 as amended: after a selector timeout the only response is the 408 whose
\* message names the selector attempted and whose details are afterNavUrl,
\* the page's current URL, navStatus and the page's current title, null when
\* the title could not be read; the selector and the timeout used are
\* captured in the logged line only; and no scroll or click is started.
C9_SelectorTimeout ==
    \A p \in Procs :
        (WaitTimedOut(p) /\ Responded(p)) =>
            LET r == responses[p][1]
                d == r.details
                lg == logs[p][Len(logs[p])]
            IN  /\ Len(responses[p]) = 1
                /\ r.status = 408
                /\ ~r.success
                /\ r.error = <<"Timeout waiting for selector ">> \o Asked(req[p])
                /\ DOMAIN d = {"afterNavUrl", "finalUrl", "navStatus", "pageTitle"}
                /\ d.finalUrl = doc[p].url
                /\ d.pageTitle = (IF TitleRejected(p) THEN Null ELSE doc[p].title)
                /\ lg.line = "Timeout waiting for selector"
                /\ lg.css = Asked(req[p])
                /\ lg.selectorTimeout =
                      (IF req[p].waitForSelectorMs.t = "number"
                       THEN req[p].waitForSelectorMs.n ELSE 20000)
                /\ lg.finalUrl = doc[p].url
                /\ lg.pageTitle = d.pageTitle
                /\ \A i \in DOMAIN calls[p] :
                      calls[p][i].op \notin {"evaluateScroll", "evaluateClick", "click"}

\* A selector timeout with a requested timeout of 5 was reported after the
\* page had left the URL it had after navigation and with the title unread.
C9_Witness ==
    \E p \in Procs :
        /\ WaitTimedOut(p)
        /\ Responded(p)
        /\ req[p].waitForSelectorMs = Num(5)
        /\ TitleRejected(p)
        /\ responses[p][1].details.pageTitle = Null
        /\ responses[p][1].details.finalUrl # responses[p][1].details.afterNavUrl

\* ------------------------------------------------------------------ C10

\* The script click of p found no element.
JsClickMissed(p) ==
    <<"click", "noElement">> \in {effects[p][i] : i \in DOMAIN effects[p]}

\* C10: when the script click finds no element although the wait had seen
\* it visible, the only response is the 500 click failure naming the
\* selector, which is neither the selector-timeout response nor a success;
\* the scroll before it settled without failing, element or not; and no
\* post-click wait is started.
C10_LateDisappearance ==
    \A p \in Procs :
        JsClickMissed(p) =>
            /\ req[p].useJsClick
            /\ <<"waitForSelector", "visible">> \in {effects[p][i] : i \in DOMAIN effects[p]}
            /\ EffectsOf(p, "scroll") \in {<< <<"scroll", "done">> >>, << <<"scroll", "noElement">> >>}
            /\ Len(responses[p]) = 1
            /\ responses[p][1].status = 500
            /\ ~responses[p][1].success
            /\ responses[p][1].error = <<"Failed to JS-click ">> \o Asked(req[p])
            /\ responses[p][1].error[1] # "Timeout waiting for selector "
            /\ ~PostWaitStarted(p)
            /\ <<"postWait", "done">> \notin {effects[p][i] : i \in DOMAIN effects[p]}

\* The element was seen visible, was gone at the scroll, which did nothing,
\* and was still gone at the script click: the click failure was reported.
C10_Witness ==
    \E p \in Procs :
        /\ JsClickMissed(p)
        /\ EffectsOf(p, "scroll") = << <<"scroll", "noElement">> >>
        /\ Responded(p)
        /\ pc[p] = "done"

\* ------------------------------------------------------------------- C8

\* out is id with one backslash put before each reserved character and
\* nothing else changed: the i-th character of id stands in out after as
\* many backslashes as id has reserved characters up to it.
IsBackslashEscaped(out, id) ==
    LET at(i) == i + Cardinality({j \in 1..i : id[j] \in ReservedChars})
    IN  /\ Len(out) = at(Len(id))
        /\ \A i \in DOMAIN id :
              /\ out[at(i)] = id[i]
              /\ id[i] \in ReservedChars => out[at(i) - 1] = "\\"

\* C8 as claimed: for every buttonId, the derived selector is # and the
\* buttonId with each reserved character and space backslash-escaped, and it
\* is an id selector that selects exactly by id = buttonId.
C8_EscapedSelectorMatchesId ==
    \A p \in Procs :
        pc[p] = "built" =>
            /\ Head(loc[p].css) = "#"
            /\ IsBackslashEscaped(Tail(loc[p].css), req[p].buttonId)
            /\ ParseIdSelector(loc[p].css) = [valid |-> TRUE, id |-> req[p].buttonId]

\* The first half of C8 alone: the escaping, character for character.
C8_EscapingOnly ==
    \A p \in Procs :
        pc[p] = "built" =>
            /\ Head(loc[p].css) = "#"
            /\ IsBackslashEscaped(Tail(loc[p].css), req[p].buttonId)

\* C8 for the buttonIds that do not begin with a digit.
C8_NoLeadingDigit ==
    \A p \in Procs :
        (pc[p] = "built" /\ Head(req[p].buttonId) \notin Digits) =>
            ParseIdSelector(loc[p].css) = [valid |-> TRUE, id |-> req[p].buttonId]

\* ------------------------------------------------------------------ C11

\* The click of p was performed: the pointer or the script click settled
\* with the element clicked.
Clicked(p) == <<"click", "done">> \in {effects[p][i] : i \in DOMAIN effects[p]}

\* The post-click wait of p ran to its end.
PostWaitDone(p) == <<"postWait", "done">> \in {effects[p][i] : i \in DOMAIN effects[p]}

\* C11: every success response comes after the post-click wait has run to its
\* end, and reports what was applied: waitedMs is the request's waitMs when
\* that is a number (0 included) and 60000 when it is absent, and it is the
\* duration the post-click wait was started with; usedFrameFilter is the
\* request's frameUrlContains, null when none was given; httpStatus is the
\* status of the navigation attempt that succeeded, null when it had none.
C11_SuccessReportsApplied ==
    \A p \in Procs : \A i \in DOMAIN responses[p] :
        responses[p][i].success =>
            LET d == responses[p][i].details
                w == IF req[p].waitMs.t = "number" THEN req[p].waitMs.n ELSE 60000
                f == req[p].frameUrlContains
                g == GotoOutcomes(p)
            IN  /\ PostWaitDone(p)
                /\ effects[p][Len(effects[p])] \in
                      {<<"postWait", "done">>, <<"close", "done">>, <<"close", "rejected">>}
                /\ d.waitedMs = w
                /\ \E k \in CallsOf(p, "waitForTimeout") :
                      /\ calls[p][k].ms = w
                      /\ \E j \in CallsOf(p, "click") \cup CallsOf(p, "evaluateClick") : j < k
                /\ d.usedFrameFilter = (IF f \in {Undefined, Null, <<>>} THEN Null ELSE f)
                /\ g[Len(g)][2] = "ok"
                /\ d.httpStatus = g[Len(g)][3]
                /\ d.url = req[p].url

\* A request with waitMs 0 succeeded after a navigation
\* whose response had no status: it reports 0 and null.
C11_Witness ==
    \E p \in Procs :
        /\ Succeeded(p)
        /\ req[p].waitMs = Num(0)
        /\ responses[p][1].details.waitedMs = 0
        /\ responses[p][1].details.httpStatus = Null
        /\ PostWaitDone(p)

\* A request without waitMs and with a frame filter succeeded after a
\* navigation answered with a status: it reports the default wait, the
\* filter and the status.
C11_WitnessDefault ==
    \E p \in Procs :
        /\ Succeeded(p)
        /\ req[p].waitMs = NumUndefined
        /\ req[p].frameUrlContains = <<"x">>
        /\ responses[p][1].details.waitedMs = DEFAULT_WAIT_MS
        /\ responses[p][1].details.usedFrameFilter = <<"x">>
        /\ responses[p][1].details.httpStatus = HttpOk

\* ------------------------------------------------------------------ C12

\* The awaited operations of p that rejected outside the inner try block,
\* and with them every failed navigation attempt.
Thrown(p) ==
    {i \in DOMAIN effects[p] :
        /\ effects[p][i][1] \notin {"waitForSelector", "title", "close"}
        /\ effects[p][i][2] \notin {"ok", "done", "visible", "noElement"}}

\* The message of the error an operation rejected with.
MessageOf(p, x) ==
    CASE x[1] = "launch" -> "launch failed"
      [] x[1] = "newPage" -> "newPage failed"
      [] x[1] = "setViewport" -> "setViewport failed"
      [] x[1] = "setUserAgent" -> "setUserAgent failed"
      [] x[1] = "goto" -> x[2]
      [] x[1] = "extraWait" -> "waitForTimeout failed"
      [] x[1] = "scroll" -> "evaluate failed"
      [] x[1] = "click" -> IF req[p].useJsClick THEN "evaluate failed" ELSE "click failed"
      [] x[1] = "postWait" -> "waitForTimeout failed"

\* An error of p reached the catch block: an operation rejected, and when it
\* was a navigation attempt it was the third.
Caught(p) ==
    \E i \in Thrown(p) :
        effects[p][i][1] = "goto" =>
            Cardinality({j \in 1..i : effects[p][j][1] = "goto"}) = 3

\* C12: an invocation never has two responses, has none while it runs and
\* exactly one once it is past its last stage; and when launch, page setup,
\* navigation (for the last time), the extra wait, the scroll, the click or the
\* post-click wait throws, that one response is the 500 failure carrying the
\* thrown error's message, which is logged too, and nothing runs after it
\* but the close.
C12_ExactlyOneOutcome ==
    \A p \in Procs :
        /\ Len(responses[p]) <= 1
        /\ (pc[p] \in {"closing", "done"}) <=> (Len(responses[p]) = 1)
        /\ Caught(p) =>
              LET i == CHOOSE k \in Thrown(p) : \A j \in Thrown(p) : j <= k
                  x == effects[p][i]
              IN  /\ Len(responses[p]) = 1
                  /\ responses[p][1].status = 500
                  /\ ~responses[p][1].success
                  /\ responses[p][1].error = <<MessageOf(p, x)>>
                  /\ logs[p][Len(logs[p])].err = MessageOf(p, x)
                  /\ \A j \in DOMAIN effects[p] : j > i => effects[p][j][1] = "close"

\* The pointer click threw after navigation had needed a retry, and the
\* request got the failure carrying the click's error.
C12_Witness ==
    \E p \in Procs :
        /\ <<"click", "rejected">> \in {effects[p][i] : i \in DOMAIN effects[p]}
        /\ ~req[p].useJsClick
        /\ Len(GotoOutcomes(p)) = 2
        /\ responses[p] # <<>>
        /\ responses[p][1].error = <<"click failed">>
        /\ pc[p] = "done"

\* ------------------------------------------------------------------ C13

\* The origin of p's failure, as the history of its invocation shows it.
FailureOrigin(p) ==
    CASE Invalid(req[p]) -> "validation"
      [] LaunchFailed(p) -> "launch"
      [] GotoOutcomes(p) # <<>> /\ GotoOutcomes(p)[Len(GotoOutcomes(p))][2] # "ok"
         -> "navigation"
      [] \E frames \in Enumerated(p) :
            \A i \in DOMAIN frames : ~Includes(frames[i], req[p].frameUrlContains)
         -> "frame-not-found"
      [] \E i \in DOMAIN effects[p] : effects[p][i][1] = "waitForSelector"
                                      /\ effects[p][i][2] # "visible"
         -> "selector-timeout"
      [] \E i \in DOMAIN effects[p] : effects[p][i][1] = "click"
                                      /\ effects[p][i][2] # "done"
         -> "click"
      [] OTHER -> "other"

\* What a caller can tell a failure response's kind by: its status, its
\* fields, its hint and the fixed beginning of its message where it has one.
ResponseKind(r) ==
    [status |-> r.status,
     fields |-> DOMAIN r,
     hint |-> IF "hint" \in DOMAIN r THEN r.hint ELSE "",
     prefix |-> IF r.error[1] \in {"Missing url", "Provide buttonId or selector",
                                   "Iframe not found for frameUrlContains=",
                                   "Timeout waiting for selector ",
                                   "Failed to JS-click "}
                THEN r.error[1] ELSE ""]

\* The kind of the response of the catch block.
GenericKind == ResponseKind(GenericFailure("unclassified"))

\* C13 as claimed: every failure response carries a details object, and a
\* failure of one of the six origins (validation, launch, navigation,
\* frame-not-found, selector-timeout, click) has a response of another kind
\* than the generic unclassified failure's.
C13_TypedFailuresWithDetails ==
    \A p \in Procs : \A i \in DOMAIN responses[p] :
        ~responses[p][i].success =>
            /\ "details" \in DOMAIN responses[p][i]
            /\ FailureOrigin(p) # "other" => ResponseKind(responses[p][i]) # GenericKind

\* The first half of C13 alone: every failure response carries details.
C13_DetailsOnly ==
    \A p \in Procs : \A i \in DOMAIN responses[p] :
        ~responses[p][i].success => "details" \in DOMAIN responses[p][i]

\* The second half of C13 alone: the six origins against the generic failure.
C13_TypedOnly ==
    \A p \in Procs : \A i \in DOMAIN responses[p] :
        (~responses[p][i].success /\ FailureOrigin(p) # "other") =>
            ResponseKind(responses[p][i]) # GenericKind

\* What holds of the six origins: frame-not-found and selector-timeout
\* failures carry details, whose navStatus is null when navigation's response
\* had no status; validation and script-click failures carry none and are of
\* kinds of their own; launch, navigation and pointer-click failures are the
\* generic failure.
C13_FailureShapes ==
    \A p \in Procs : \A i \in DOMAIN responses[p] :
        LET r == responses[p][i]
            o == FailureOrigin(p)
        IN  ~r.success =>
              /\ o \in {"frame-not-found", "selector-timeout"} <=> "details" \in DOMAIN r
              /\ "details" \in DOMAIN r =>
                    /\ "navStatus" \in DOMAIN r.details
                    /\ r.details.navStatus = GotoOutcomes(p)[Len(GotoOutcomes(p))][3]
              /\ o \in {"launch", "navigation", "other"} => ResponseKind(r) = GenericKind
              /\ o = "validation" => r.status = 400 /\ ResponseKind(r) # GenericKind
              /\ o = "click" =>
                    (ResponseKind(r) = GenericKind <=> ~JsClickMissed(p))

\* ------------------------------------------------------------------ C14

\* p is a GET /info invocation.
IsProbe(p) == "route" \in DOMAIN req[p]

\* The operations of the stages a probe has no part in.
InteractionOps ==
    {"frames", "waitForSelector", "evaluateScroll", "evaluateClick", "click", "waitForTimeout"}

\* A navigation attempt of p rejected.
GotoFailed(p) == \E i \in DOMAIN effects[p] : effects[p][i][1] = "goto" /\ effects[p][i][2] # "ok"

\* C14: a probe with a url starts no frame enumeration, element wait, scroll,
\* click or delay and navigates once at most; it never has two responses;
\* when it is over it has one, which is the ok response exactly when launch,
\* page setup and navigation all succeeded, and then carries the page's
\* current URL, the navigation's status (null when it had none) and the
\* page's title (null when reading it failed), and is otherwise the 500
\* failure, so in particular when launch or navigation failed; and when the
\* launch succeeded, close has been attempted on that browser by then, which
\* is closed unless the close itself failed.
C14_ProbeLaunchAndNavigateOnly ==
    \A p \in Procs :
        (IsProbe(p) /\ req[p].url \notin {Undefined, Null, <<>>}) =>
            /\ \A i \in DOMAIN calls[p] : calls[p][i].op \notin InteractionOps
            /\ Cardinality(CallsOf(p, "goto")) <= 1
            /\ Cardinality(CallsOf(p, "launch")) = 1
            /\ Len(responses[p]) <= 1
            /\ pc[p] = "done" => Len(responses[p]) = 1
            /\ \A i \in DOMAIN responses[p] :
                  LET r == responses[p][i]
                      g == GotoOutcomes(p)
                  IN  /\ r.ok <=> (g # <<>> /\ g[Len(g)][2] = "ok")
                      /\ r.ok =>
                            /\ r.status = 200
                            /\ r.finalUrl = doc[p].url
                            /\ r.httpStatus = g[Len(g)][3]
                            /\ r.title = (IF TitleRejected(p) THEN Null ELSE doc[p].title)
                      /\ ~r.ok =>
                            /\ r.status = 500
                            /\ DOMAIN r = {"status", "ok", "error"}
                      /\ LaunchFailed(p) => r = [status |-> 500, ok |-> FALSE,
                                                 error |-> <<"launch failed">>]
                      /\ GotoFailed(p) => r = [status |-> 500, ok |-> FALSE,
                                               error |-> <<g[Len(g)][2]>>]
            /\ (Responded(p) /\ LaunchSucceeded(p)) => CloseAttempted(p)
            /\ ~LaunchSucceeded(p) => CallsOf(p, "close") = {}
            /\ (pc[p] = "done" /\ LaunchSucceeded(p)) =>
                  (browsers[loc[p].browser] = "closed"
                      <=> <<"close", "done">> \in {effects[p][i] : i \in DOMAIN effects[p]})

\* A probe is over with the ok response, the navigation's response having
\* had no status and the title read having failed, and its browser closed.
C14_Witness ==
    \E p \in Procs :
        /\ IsProbe(p)
        /\ pc[p] = "done"
        /\ Responded(p)
        /\ responses[p][1].ok
        /\ responses[p][1].httpStatus = Null
        /\ responses[p][1].title = Null
        /\ TitleRejected(p)
        /\ browsers[loc[p].browser] = "closed"

\* A probe whose navigation failed is over with the failure response and its
\* browser closed.
C14_WitnessFailure ==
    \E p \in Procs :
        /\ IsProbe(p)
        /\ pc[p] = "done"
        /\ GotoFailed(p)
        /\ Responded(p)
        /\ ~responses[p][1].ok
        /\ browsers[loc[p].browser] = "closed"

\* ------------------------------------------------------------------ C15

\* What the environment answered p's invocation with: how each operation of
\* its own settled, the close apart, and the document its page shows.
Settled(p) == SelectSeq(effects[p], LAMBDA x : x[1] # "close")

\* The response of a probe as a function of its url, of how its operations
\* settled and of the document d its page shows.
ProbeOutcome(p, u, e, d) ==
    LET failed == {i \in DOMAIN e : e[i][1] # "title" /\ e[i][2] \notin {"ok", "done"}}
        g == SelectSeq(e, LAMBDA x : x[1] = "goto")
        titleFailed == <<"title", "rejected">> \in {e[i] : i \in DOMAIN e}
    IN  IF u \in {Undefined, Null, <<>>}
        THEN [status |-> 400, ok |-> FALSE, error |-> <<"Missing url">>]
        ELSE IF failed # {}
             THEN [status |-> 500, ok |-> FALSE,
                   error |-> <<MessageOf(p, e[CHOOSE i \in failed : TRUE])>>]
             ELSE [status |-> 200, ok |-> TRUE, finalUrl |-> d.url,
                   httpStatus |-> g[Len(g)][3],
                   title |-> IF titleFailed THEN Null ELSE d.title]

\* C15: the response of a probe is a function of its own request and of what
\* the environment answered its own operations with, whatever another
\* invocation, probe or /run, did before or beside it; so two probes with the
\* same url that were answered alike have the same response, and two probes
\* of the same url whose navigation failed both have the 500 failure with the
\* navigation's error.
C15_ProbeOutcomeFromOwnRequestOnly ==
    /\ \A p \in Procs :
          (IsProbe(p) /\ Responded(p)) =>
              responses[p] = <<ProbeOutcome(p, req[p].url, Settled(p), doc[p])>>
    /\ \A p, q \in Procs :
          (IsProbe(p) /\ IsProbe(q) /\ Responded(p) /\ Responded(q)
              /\ req[p] = req[q] /\ Settled(p) = Settled(q) /\ doc[p] = doc[q]) =>
              responses[p] = responses[q]
    /\ \A p, q \in Procs :
          (IsProbe(p) /\ IsProbe(q) /\ req[p] = req[q]
              /\ GotoFailed(p) /\ GotoFailed(q)) =>
              /\ responses[p] = responses[q]
              /\ responses[p][1].status = 500
              /\ ~responses[p][1].ok

\* Two probes of the same url are over, the navigation of both having
\* failed: both have the same failure, and each closed a browser of its own.
C15_Witness ==
    /\ \A p \in Procs : IsProbe(p) /\ pc[p] = "done" /\ GotoFailed(p)
    /\ req[1] = req[2]
    /\ responses[1] = responses[2]
    /\ ~responses[1][1].ok
    /\ browsers = <<"closed", "closed">>

\* A probe whose navigation failed is over beside a /run invocation that
\* launched its browser first and has succeeded.
C15_WitnessAfterRun ==
    /\ ~IsProbe(1)
    /\ responses[1] # <<>>
    /\ responses[1][1].status = 200
    /\ loc[1].browser = 1
    /\ IsProbe(2)
    /\ pc[2] = "done"
    /\ GotoFailed(2)

\* ------------------------------------------------------------------ C16

\* The request of p keeps to the durations the interface allows: waitMs and
\* waitForSelectorMs are non-negative numbers or absent.
DurationsAllowed(p) ==
    /\ req[p] # NoRequest
    /\ req[p].waitMs.t = "number" => req[p].waitMs.n >= 0
    /\ req[p].waitForSelectorMs.t = "number" => req[p].waitForSelectorMs.n >= 0

\* C16 as claimed: when every pending operation settles in the end, every
\* invocation whose waitMs and waitForSelectorMs are non-negative numbers
\* (0 included) or absent gets its response in the end, success or failure.
C16_EveryInvocationEnds ==
    \A p \in MainProcs : DurationsAllowed(p) ~> Responded(p)

\* C16 for the requests whose element wait has a deadline: with
\* waitForSelectorMs absent or above 0, the invocation gets its response.
C16_EndsWithDeadline ==
    \A p \in MainProcs :
        (DurationsAllowed(p) /\ req[p].waitForSelectorMs # Num(0)) ~> Responded(p)

\* The second half of C16 as a property of states: an element wait that is
\* pending with the element not visible can end at its deadline.
C16_WaitHasDeadline ==
    \A p \in MainProcs :
        (pc[p] = "waitForSelector" /\ ~present[p]) => ENABLED WaitForSelectorTimesOut(p)

\* ------------------------------------------------------------------ C17

\* The invocations that passed validation and started a launch.
Started(p) == CallsOf(p, "launch") # {}

\* The status the response of p must have by p's own history alone.
OwnStatus(p) ==
    IF PostWaitDone(p) THEN 200
    ELSE IF FailureOrigin(p) \in {"frame-not-found", "selector-timeout"} THEN 408 ELSE 500

\* C17: however the awaits of two invocations interleave, each invocation
\* launches once and gets a browser no other invocation has; every operation
\* it starts after the launch is on that browser; there are as many browsers
\* as successful launches; a browser is closed only by the close of the
\* invocation that launched it, so it stays open while its invocation still
\* works on it; and the response of an invocation follows from its own
\* history whatever the other one has done.
C17_OwnBrowserOnly ==
    LET launched == {p \in Procs : LaunchSucceeded(p)}
    IN  /\ \A p \in Procs :
              /\ Cardinality(CallsOf(p, "launch")) <= 1
              /\ Len(EffectsOf(p, "launch")) <= 1
              /\ p \in launched <=> loc[p].browser # 0
              /\ loc[p].browser \in 0..Len(browsers)
              /\ \A i \in DOMAIN calls[p] :
                    /\ calls[p][i].b = (IF calls[p][i].op = "launch" THEN 0 ELSE loc[p].browser)
                    /\ calls[p][i].op # "launch" => calls[p][i].b # 0
              /\ Len(responses[p]) <= 1
              /\ Responded(p) =>
                    /\ responses[p][1].status = OwnStatus(p)
                    /\ responses[p][1].success <=> PostWaitDone(p)
        /\ \A p \in launched :
              /\ \A q \in launched \ {p} : loc[p].browser # loc[q].browser
              /\ browsers[loc[p].browser] = "closed"
                    <=> <<"close", "done">> \in {effects[p][i] : i \in DOMAIN effects[p]}
              /\ pc[p] \notin {"closing", "done"} => browsers[loc[p].browser] = "open"
        /\ Len(browsers) = Cardinality(launched)

\* The second invocation launched first and is still waiting for its
\* element, its browser open, while the first one has launched a browser of
\* its own, succeeded and closed it.
C17_Witness ==
    /\ loc[2].browser = 1
    /\ loc[1].browser = 2
    /\ pc[2] = "waitForSelector"
    /\ browsers = <<"open", "closed">>
    /\ pc[1] = "done"
    /\ Succeeded(1)

\* ------------------------------------------------------------------ C18

\* The operations of p that belong to a stage, by their places in calls[p]:
\* the diagnostic reads and the close are none.
Staged(p) == {i \in DOMAIN calls[p] : calls[p][i].op \notin {"title", "url", "close"}}

\* The stage the i-th operation of p belongs to: 1 Launching (page setup
\* included), 2 Navigating, 3 ExtraWait, 4 ResolvingContext, 5 LocatingElement,
\* 6 Scrolling, 7 Clicking, 8 PostWait.
StageOf(p, i) ==
    LET o == calls[p][i].op
    IN  CASE o \in {"launch", "newPage", "setViewport", "setUserAgent"} -> 1
          [] o = "goto" -> 2
          [] o = "waitForTimeout" ->
                IF \E j \in 1..(i - 1) : calls[p][j].op \in {"click", "evaluateClick"}
                THEN 8 ELSE 3
          [] o = "frames" -> 4
          [] o = "waitForSelector" -> 5
          [] o = "evaluateScroll" -> 6
          [] o \in {"click", "evaluateClick"} -> 7

\* The names of the operations p started, in order.
OpsOf(p) == [i \in DOMAIN calls[p] |-> calls[p][i].op]

\* k times the same entry.
Repeat(x, k) == [i \in 1..k |-> x]

\* C18: the operations of an invocation never go back to an earlier stage and
\* none but the navigation attempt is started twice; an operation is started
\* only when every earlier one has settled; the extra wait runs exactly when
\* extraWaitAfterLoadMs is above 0; and an invocation that succeeded has gone
\* through every stage once, in order: launch and page setup, the navigation
\* attempts of which the last and only the last succeeded, the extra wait when
\* asked for, the frame enumeration when filtered, the element wait that saw
\* the element visible, the scroll, one click that was performed, the
\* post-click wait.
C18_StagesInOrder ==
    \A p \in Procs :
        LET x == req[p].extraWaitAfterLoadMs
            waited == \E i \in Staged(p) : StageOf(p, i) = 3
            pending == Cardinality({i \in DOMAIN calls[p] : calls[p][i].op \notin {"frames", "url"}})
                          - Len(effects[p])
        IN  /\ \A i, j \in Staged(p) :
                  i < j => /\ StageOf(p, i) <= StageOf(p, j)
                           /\ (calls[p][i].op = calls[p][j].op
                                  /\ StageOf(p, i) = StageOf(p, j)) => calls[p][i].op = "goto"
            /\ pending \in {0, 1}
            /\ pending = 1 <=> pc[p] \notin {"idle", "done"}
            /\ waited => x.t = "number" /\ x.n > 0
            /\ (\E i \in Staged(p) : StageOf(p, i) > 3) =>
                  (waited <=> (x.t = "number" /\ x.n > 0))
            /\ Succeeded(p) =>
                  LET g == Len(GotoOutcomes(p))
                      extra == IF x.t = "number" /\ x.n > 0 THEN 1 ELSE 0
                      filtered == IF req[p].frameUrlContains \in {Undefined, Null, <<>>}
                                  THEN 0 ELSE 1
                      e == Settled(p)
                  IN  /\ g \in 1..3
                      /\ \E sc \in {"done", "noElement"} :
                            [i \in DOMAIN e |-> <<e[i][1], e[i][2]>>] =
                               << <<"launch", "ok">>, <<"newPage", "ok">>,
                                  <<"setViewport", "ok">>, <<"setUserAgent", "ok">> >>
                               \o [i \in 1..(g - 1) |-> <<"goto", NavError(i)>>]
                               \o << <<"goto", "ok">> >>
                               \o Repeat(<<"extraWait", "done">>, extra)
                               \o << <<"waitForSelector", "visible">>, <<"scroll", sc>>,
                                     <<"click", "done">>, <<"postWait", "done">> >>
                      /\ OpsOf(p) \in
                            {<<"launch", "newPage", "setViewport", "setUserAgent">>
                               \o Repeat("goto", g)
                               \o Repeat("waitForTimeout", extra)
                               \o Repeat("frames", filtered)
                               \o <<"waitForSelector", "evaluateScroll", c, "waitForTimeout",
                                    "url", "close">> : c \in {"click", "evaluateClick"}}
                      /\ Len(EffectsOf(p, "click")) = 1

\* A request with a frame filter and an extra wait succeeded after two failed
\* navigation attempts, having gone through all eight stages.
C18_Witness ==
    \E p \in Procs :
        /\ Succeeded(p)
        /\ req[p].extraWaitAfterLoadMs = Num(3)
        /\ Len(GotoOutcomes(p)) = 3
        /\ {StageOf(p, i) : i \in Staged(p)} = 1..8

\* A request with extraWaitAfterLoadMs 0 succeeded without the extra wait.
C18_WitnessNoExtraWait ==
    \E p \in Procs :
        /\ Succeeded(p)
        /\ req[p].extraWaitAfterLoadMs = Num(0)
        /\ {StageOf(p, i) : i \in Staged(p)} = (1..8) \ {3}

\* ------------------------------------------------------------------ C19

\* p's invocation ended in failure after its launch was started.
Failed(p) == calls[p] # <<>> /\ \E i \in DOMAIN responses[p] : ~responses[p][i].success

\* The stage p's invocation was in when it failed: the stage of the last
\* operation it started, diagnostics and close apart.
FailedFrom(p) == StageOf(p, CHOOSE i \in Staged(p) : \A j \in Staged(p) : j <= i)

\* C19 as claimed: an invocation fails only from Launching, Navigating,
\* ResolvingContext, LocatingElement or Clicking (stages 1, 2, 4, 5, 7), never
\* from ExtraWait, Scrolling or PostWait (3, 6, 8), and never after its click
\* was performed.
C19_NoFailureFromWaitsOrScroll ==
    \A p \in Procs :
        Failed(p) => FailedFrom(p) \in {1, 2, 4, 5, 7} /\ ~Clicked(p)

\* C19 as amended: an invocation can fail from every stage. From
\* ResolvingContext it fails with the 408 frame-not-found response and from
\* LocatingElement with the 408 selector-timeout response only; from
\* Clicking with the script-click failure or, the click having thrown, with
\* the generic 500; and from Launching, Navigating, ExtraWait, Scrolling and
\* PostWait with the generic 500 carrying the error thrown there. A failure
\* after the click was performed is the generic 500 of a post-click wait that
\* threw, and nothing else; and an operation that throws always ends the
\* invocation in failure, whatever stage it is in.
C19_FailureFromAnyStage ==
    \A p \in Procs :
        /\ Caught(p) => Failed(p)
        /\ Failed(p) =>
            LET r == responses[p][1]
                k == FailedFrom(p)
                last == effects[p][Len(Settled(p))]
            IN  /\ Len(responses[p]) = 1
                /\ k \in 1..8
                /\ k = 4 <=> r.error[1] = "Iframe not found for frameUrlContains="
                /\ k = 5 <=> r.error[1] = "Timeout waiting for selector "
                /\ k \in {4, 5} <=> r.status = 408
                /\ k \in {1, 2, 3, 6, 8} =>
                      /\ ResponseKind(r) = GenericKind
                      /\ last[2] \notin {"ok", "done", "visible", "noElement"}
                      /\ r.error = <<MessageOf(p, last)>>
                /\ k = 7 =>
                      \/ JsClickMissed(p) /\ r = [status |-> 500, success |-> FALSE,
                                                  error |-> <<"Failed to JS-click ">> \o Asked(req[p])]
                      \/ last = <<"click", "rejected">> /\ ResponseKind(r) = GenericKind
                /\ last[1] = (CASE k = 1 -> last[1]
                                [] k = 2 -> "goto"
                                [] k = 3 -> "extraWait"
                                [] k = 4 -> last[1]
                                [] k = 5 -> "title"
                                [] k = 6 -> "scroll"
                                [] k = 7 -> "click"
                                [] k = 8 -> "postWait")
                /\ Clicked(p) <=> k = 8

\* The post-click wait threw after the click had been performed: the
\* invocation ended with the generic failure, from PostWait.
C19_Witness ==
    \E p \in Procs :
        /\ Failed(p)
        /\ Clicked(p)
        /\ FailedFrom(p) = 8
        /\ responses[p][1].error = <<"waitForTimeout failed">>

\* The scroll script threw: the invocation failed from Scrolling.
C19_WitnessScroll ==
    \E p \in Procs :
        /\ Failed(p)
        /\ FailedFrom(p) = 6
        /\ <<"scroll", "rejected">> \in {effects[p][i] : i \in DOMAIN effects[p]}

\* The extra wait threw: the invocation failed from ExtraWait.
C19_WitnessExtraWait ==
    \E p \in Procs :
        /\ Failed(p)
        /\ FailedFrom(p) = 3
        /\ <<"extraWait", "rejected">> \in {effects[p][i] : i \in DOMAIN effects[p]}

\* ------------------------------------------------------------------ C20

\* The operations of p started more than once.
StartedTwice(p) ==
    {calls[p][i].op : i \in {j \in DOMAIN calls[p] :
                               \E k \in DOMAIN calls[p] :
                                   k # j /\ calls[p][k].op = calls[p][j].op}}

\* C20: no operation of an invocation but the navigation attempt and the
\* delay (once after navigation, once after the click) is started twice: the
\* launch, the frame enumeration, the element wait, the scroll and the click,
\* pointer and script together, are started once at most; a navigation
\* attempt is started again only after the one before failed; and the click
\* settles once at most, so it is performed once at most, whether navigation
\* was retried or not and whether the click failed or not.
C20_OnlyNavigationRetried ==
    \A p \in Procs :
        /\ StartedTwice(p) \subseteq {"goto", "waitForTimeout"}
        /\ Cardinality(CallsOf(p, "waitForTimeout")) <= 2
        /\ Cardinality(CallsOf(p, "click") \cup CallsOf(p, "evaluateClick")) <= 1
        /\ Len(EffectsOf(p, "launch")) <= 1
        /\ Len(EffectsOf(p, "waitForSelector")) <= 1
        /\ Len(EffectsOf(p, "scroll")) <= 1
        /\ Len(EffectsOf(p, "click")) <= 1
        /\ Cardinality(CallsOf(p, "goto")) <= 3
        /\ Cardinality(CallsOf(p, "goto")) - 1 =
              Cardinality({i \in DOMAIN GotoOutcomes(p) :
                             GotoOutcomes(p)[i][2] # "ok" /\ i < 3})
              \/ CallsOf(p, "goto") = {}
        /\ (\E i \in DOMAIN effects[p] : effects[p][i] = <<"click", "rejected">>) =>
              /\ ~Clicked(p)
              /\ Failed(p)

\* Navigation succeeded at its third attempt and the pointer click then
\* failed: it was started once, and the invocation is over in failure.
C20_Witness ==
    \E p \in Procs :
        /\ Cardinality(CallsOf(p, "goto")) = 3
        /\ <<"click", "rejected">> \in {effects[p][i] : i \in DOMAIN effects[p]}
        /\ Cardinality(CallsOf(p, "click")) = 1
        /\ pc[p] = "done"
        /\ Failed(p)

\* ------------------------------------------------------------------ C21

\* The object every operation of the element stages is called on: the wait,
\* the scroll, the click, and the post-click wait.
ContextsUsed(p) ==
    {calls[p][i].on : i \in {j \in DOMAIN calls[p] : calls[p][j].op \in CtxOps}}
    \cup {calls[p][i].on : i \in {j \in CallsOf(p, "waitForTimeout") :
                                     \E k \in CallsOf(p, "waitForSelector") : k < j}}

\* The frame at place i of the enumeration is the first whose URL contains sub.
IsFirstMatch(frames, i, sub) ==
    /\ i \in DOMAIN frames
    /\ Includes(frames[i], sub)
    /\ \A j \in 1..(i - 1) : ~Includes(frames[j], sub)

\* C21: with a frame filter the frames are enumerated once, before any
\* operation on the context, and the context is the first enumerated frame
\* whose URL contains the filter; without one nothing is enumerated and the
\* context is the page; every operation of the element stages of a request is
\* called on that one context; and the title and the final URL are read from
\* the page, so a reported finalUrl is the page's URL whatever the context.
C21_ContextResolvedOnce ==
    \A p \in Procs :
        /\ Cardinality(CallsOf(p, "frames")) <= 1
        /\ Cardinality(ContextsUsed(p)) <= 1
        /\ \A c \in ContextsUsed(p) :
              IF CallsOf(p, "frames") = {}
              THEN c = PageCtx /\ ~Truthy(req[p].frameUrlContains)
              ELSE /\ Truthy(req[p].frameUrlContains)
                   /\ c.kind = "frame"
                   /\ \A frames \in Enumerated(p) :
                         /\ IsFirstMatch(frames, c.idx, req[p].frameUrlContains)
                         /\ c.url = frames[c.idx]
        /\ \A i \in DOMAIN calls[p] :
              /\ calls[p][i].op \in CtxOps =>
                    (Truthy(req[p].frameUrlContains) => \E j \in CallsOf(p, "frames") : j < i)
              /\ calls[p][i].op \in {"title", "url"} => calls[p][i].on = PageCtx
        /\ \A i \in DOMAIN responses[p] :
              ("details" \in DOMAIN responses[p][i]
                  /\ "finalUrl" \in DOMAIN responses[p][i].details) =>
                 /\ responses[p][i].details.finalUrl = doc[p].url
                 /\ \A c \in ContextsUsed(p) :
                       c.idx > 1 => responses[p][i].details.finalUrl # c.url

\* Two nested frames match the filter and a frame before them contains it in
\* the other case only: the click went to the first of the two, and the
\* success response reports the page's URL.
C21_Witness ==
    \E p \in Procs :
        /\ Enumerated(p) = {<< <<"a">>, <<"X">>, <<"b", "x">> >>}
        /\ ContextsUsed(p) = {FrameCtx(3, <<"b", "x">>)}
        /\ Succeeded(p)
        /\ responses[p][1].details.finalUrl = <<"a">>

\* Several frames match: the first of them is the context.
C21_WitnessSeveral ==
    \E p \in Procs :
        /\ Enumerated(p) = {<< <<"a">>, <<"b", "x">>, <<"x">> >>}
        /\ ContextsUsed(p) = {FrameCtx(2, <<"b", "x">>)}
        /\ PostWaitStarted(p)

\* The element wait in a frame timed out: the title and the URL were read
\* from the page.
C21_WitnessDiagnostics ==
    \E p \in Procs :
        /\ ContextsUsed(p) = {FrameCtx(2, <<"b", "x">>)}
        /\ WaitTimedOut(p)
        /\ Responded(p)
        /\ responses[p][1].details.pageTitle = <<"T">>
        /\ responses[p][1].details.finalUrl = <<"a">>

\* No filter: the click went to the page.
C21_WitnessPage ==
    \E p \in Procs :
        /\ Succeeded(p)
        /\ req[p].frameUrlContains = Undefined
        /\ ContextsUsed(p) = {PageCtx}

\* ------------------------------------------------------------------ C22

\* The handler of p is in its finally block, waiting for browser.close().
Closing(p) == pc[p] \in {"closing", "infoClosing"}

\* browser.close() of p's invocation rejected.
CloseRejected(p) == <<"close", "rejected">> \in {effects[p][i] : i \in DOMAIN effects[p]}

\* C22: when browser.close() settles in the finally block of either route,
\* by closing the browser or by rejecting, the handler ends normally and the
\* one response sent before, whatever it was, stays the only one and is
\* unchanged, as are the logged lines: the outcome with a close that raises
\* is the outcome with a close that succeeds.
C22_CloseKeepsOutcome ==
    [][\A p \in Procs :
          (Closing(p) /\ pc'[p] # pc[p]) =>
              /\ pc'[p] = "done"
              /\ Len(responses[p]) = 1
              /\ responses'[p] = responses[p]
              /\ logs'[p] = logs[p]
              /\ calls'[p] = calls[p]]_vars

\* POST /run succeeded and the close after it rejected.
C22_Witness ==
    \E p \in Procs :
        /\ pc[p] = "done"
        /\ CloseRejected(p)
        /\ ~IsProbe(p)
        /\ Len(responses[p]) = 1
        /\ responses[p][1].status = 200

\* GET /info answered and the close after it rejected.
C22_WitnessProbe ==
    \E p \in Procs :
        /\ pc[p] = "done"
        /\ CloseRejected(p)
        /\ IsProbe(p)
        /\ Len(responses[p]) = 1
        /\ responses[p][1].status = 200

\* A 408 failure (no frame, or the element wait timed out) was reported and
\* the close after it rejected.
C22_WitnessFailures ==
    \E p \in Procs :
        /\ pc[p] = "done"
        /\ CloseRejected(p)
        /\ Len(responses[p]) = 1
        /\ responses[p][1].status = 408

\* A 500 failure was reported and the close after it rejected.
C22_WitnessGeneric ==
    \E p \in Procs :
        /\ pc[p] = "done"
        /\ CloseRejected(p)
        /\ Len(responses[p]) = 1
        /\ responses[p][1].status = 500

====
